---- MODULE Spec2Model ----
(***************************************************************************)
(* Model of the incident routing core of hawkeye: the document store       *)
(* (incidents, technician_schedule, users, notifications), the alert       *)
(* assignment pipeline (createAndAssignCriticalAlert), the scheduling      *)
(* service (autoAssignTechnician / createSchedule), the incident and       *)
(* schedule updates and the escalation sweep (checkAndEscalateSLA).        *)
(*                                                                         *)
(* Every await of the source that reads or writes the store is one atomic  *)
(* step; a request handler is a process whose program counter names the    *)
(* await it is about to execute.  Time is the wall clock in milliseconds;  *)
(* it advances between any two steps.                                      *)
(***************************************************************************)
EXTENDS Integers, Sequences, FiniteSets, Bags, TLC

(***************************************************************************)
(* Bounds of the model.                                                    *)
(***************************************************************************)
\* technicians in the directory: the first NumTechs of the seeded accounts
NumTechs == 2
\* administrators in the users collection
NumAdmins == 1
\* submitAlert requests in flight at once
NumAlertProcs == 2
\* escalation sweeps in flight at once
NumSweepProcs == 2
\* clock advances in one behaviour of the concurrent specifications
MaxTicks == 1
\* clock advances in one behaviour of the sequential specifications
MaxSeqTicks == 2
\* PATCH requests (incident or assignment) in one behaviour
MaxUpdates == 1
\* incidents reported by users in one behaviour
MaxReports == 1
\* consecutive submitAlert calls of one caller
MaxCalls == 4
\* consecutive runs of the escalation sweep
MaxSweeps == 2
\* alert incidents already stored today when the rate limiter is exercised
PreExisting == 13

(***************************************************************************)
(* Program constants.                                                      *)
(***************************************************************************)
\* the clock counts milliseconds: 60000 to the minute
UnitsPerMinute == 60000
SLA_MINUTES == 15
\* WARNING_THRESHOLD = 0.8, in hundredths
WARNING_THRESHOLD_PERCENT == 80
MIN_CONFIDENCE_THRESHOLD == 80
MAX_DAYS_TO_FAILURE == 20
\* MIN_MODEL_R2 = 0.7, in hundredths
MIN_MODEL_R2 == 70
MAX_ASSIGNMENTS_PER_TECHNICIAN_PER_DAY == 3
MAX_SYSTEM_WIDE_ASSIGNMENTS_PER_DAY == 15
DEDUPLICATION_WINDOW_HOURS == 48
COOLDOWN_PERIOD_HOURS == 24
\* createSchedule: data.duration_minutes || 30
DEFAULT_DURATION_MINUTES == 30
\* createAndAssignCriticalAlert: the slot is 5 minutes from now
SCHEDULE_OFFSET_MINUTES == 5
\* getTechnicians: max_concurrent || 2
DEFAULT_MAX_CONCURRENT == 2

Minutes(n) == n * UnitsPerMinute
Hours(n) == Minutes(60 * n)
Day == Hours(24)

\* absent values: null / undefined
Null == 0
NoTime == -1
Undefined == -1

(***************************************************************************)
(* The users collection.  scripts/create-technician.js seeds the           *)
(* technicians in this order; find() returns them in insertion order.      *)
(***************************************************************************)
defaultTechnicians ==
  << [specialization |-> "Electrical", max_concurrent |-> 2],
     [specialization |-> "Plumbing",   max_concurrent |-> 2],
     [specialization |-> "HVAC",       max_concurrent |-> 2],
     [specialization |-> "IT",         max_concurrent |-> 2],
     [specialization |-> "General",    max_concurrent |-> 2] >>

Techs == 1..NumTechs
Admins == 1..NumAdmins
\* process ids: submitAlert requests (one more than run together in
\* SpecAlerts, for the capacity race), then sweeps
AlertProcs == 1..NumAlertProcs
AllAlertProcs == 1..(NumAlertProcs + 1)

Lower(s) ==
  CASE s = "Electrical" -> "electrical"
    [] s = "Plumbing" -> "plumbing"
    [] s = "HVAC" -> "hvac"
    [] s = "IT" -> "it"
    [] s = "General" -> "general"
    [] OTHER -> s

\* variant: the table keyed by "electrical" for "electricity"
CATEGORY_TO_SPECIALIZATION_Electrical(category) ==
  CASE category = "electrical" -> <<"Electrical">>
    [] category = "water" -> <<"Plumbing">>
    [] category = "it" -> <<"IT">>
    [] category = "hostel" -> <<"General", "HVAC">>
    [] category = "garbage" -> <<"General">>
    [] OTHER -> <<>>

CATEGORY_TO_SPECIALIZATION(category) ==
  CASE category = "electricity" -> <<"Electrical">>
    [] category = "water" -> <<"Plumbing">>
    [] category = "it" -> <<"IT">>
    [] category = "hostel" -> <<"General", "HVAC">>
    [] category = "garbage" -> <<"General">>
    [] OTHER -> <<>>

getSpecializationForCategory(category) ==
  IF CATEGORY_TO_SPECIALIZATION(Lower(category)) # <<>>
  THEN CATEGORY_TO_SPECIALIZATION(Lower(category))
  ELSE <<"General">>

VARIABLES
  now,            \* the wall clock
  ticks,          \* clock advances so far
  technicians,    \* users collection, role technician: id -> document
  incidents,      \* incidents collection, in insertion order (id = index)
  schedules,      \* technician_schedule collection, in insertion order
  notifications,  \* notifications collection: a bag of documents
  ap,             \* submitAlert requests: proc -> locals
  call,           \* autoAssignTechnician activations: proc -> locals
  sw,             \* escalation sweeps: proc -> locals
  env             \* requests served so far: updates, reports, calls, sweeps

vars == <<now, ticks, technicians, incidents, schedules, notifications, ap, call, sw, env>>

ActiveStatus == {"scheduled", "in-progress"}
ScheduleStatus == {"scheduled", "in-progress", "completed", "cancelled"}

(***************************************************************************)
(* Technician Directory                                                    *)
(***************************************************************************)
\* tech.active !== false, tech.available !== false: a field that the document
\* lacks reads as true
NotFalse(document, field) ==
  IF field \in DOMAIN document THEN document[field] ELSE TRUE

\* !technician.available, !technician.active on the document as stored: a
\* field that the document lacks reads as undefined
Not(document, field) ==
  IF field \in DOMAIN document THEN ~document[field] ELSE TRUE

\* getTechnicians / getTechnicianById: the document with normalized defaults
Technician(id) ==
  [ id |-> id,
    specialization |-> technicians[id].specialization,
    active |-> NotFalse(technicians[id], "active"),
    available |-> NotFalse(technicians[id], "available"),
    current_assignments |-> technicians[id].current_assignments,
    max_concurrent |-> IF defaultTechnicians[id].max_concurrent = 0
                       THEN DEFAULT_MAX_CONCURRENT
                       ELSE defaultTechnicians[id].max_concurrent ]

getTechnicians == [id \in Techs |-> Technician(id)]

\* variant: eligibility without the capacity test
EligibleAtAnyLoad(tech) == tech.active /\ tech.available

Eligible(tech) ==
  tech.active /\ tech.available /\ tech.current_assignments < tech.max_concurrent

\* technicians.find(eligible): the first eligible technician from index k on
RECURSIVE FirstEligible(_, _)
FirstEligible(techs, k) ==
  IF k > Len(techs) THEN Null
  ELSE IF Eligible(techs[k]) THEN k
  ELSE FirstEligible(techs, k + 1)

\* technicians.find(specialization matches and eligible)
RECURSIVE FirstMatching(_, _, _)
FirstMatching(techs, specialization, k) ==
  IF k > Len(techs) THEN Null
  ELSE IF /\ Lower(techs[k].specialization) = Lower(specialization)
          /\ Eligible(techs[k])
       THEN k
  ELSE FirstMatching(techs, specialization, k + 1)

\* the loop over the category's specializations
RECURSIVE FirstBySpecialization(_, _, _)
FirstBySpecialization(techs, specializations, k) ==
  IF k > Len(specializations) THEN Null
  ELSE IF FirstMatching(techs, specializations[k], 1) # Null
       THEN FirstMatching(techs, specializations[k], 1)
  ELSE FirstBySpecialization(techs, specializations, k + 1)

\* findTechnicianBySpecialization: the technician id, Null when none
findTechnicianBySpecialization(category) ==
  IF FirstBySpecialization(getTechnicians, getSpecializationForCategory(category), 1) # Null
  THEN FirstBySpecialization(getTechnicians, getSpecializationForCategory(category), 1)
  ELSE FirstEligible(getTechnicians, 1)

(***************************************************************************)
(* Schedule Store Adapter                                                  *)
(***************************************************************************)
\* variant: the test without its third clause
OverlapsTwoClauses(startTime, endTime, schedule) ==
  LET scheduleStart == schedule.scheduled_time
      scheduleEnd == scheduleStart +
        Minutes(IF schedule.duration_minutes = 0 THEN DEFAULT_DURATION_MINUTES
                ELSE schedule.duration_minutes)
  IN \/ (startTime >= scheduleStart /\ startTime < scheduleEnd)
     \/ (endTime > scheduleStart /\ endTime <= scheduleEnd)

\* the three-clause test of hasOverlappingSchedule on one stored schedule
Overlaps(startTime, endTime, schedule) ==
  LET scheduleStart == schedule.scheduled_time
      scheduleEnd == scheduleStart +
        Minutes(IF schedule.duration_minutes = 0 THEN DEFAULT_DURATION_MINUTES
                ELSE schedule.duration_minutes)
  IN \/ (startTime >= scheduleStart /\ startTime < scheduleEnd)
     \/ (endTime > scheduleStart /\ endTime <= scheduleEnd)
     \/ (startTime <= scheduleStart /\ endTime >= scheduleEnd)

hasOverlappingSchedule(technicianId, scheduledTime, durationMinutes) ==
  \E k \in 1..Len(schedules) :
    /\ schedules[k].technician_id = technicianId
    /\ schedules[k].status \in ActiveStatus
    /\ Overlaps(scheduledTime, scheduledTime + Minutes(durationMinutes), schedules[k])

(***************************************************************************)
(* Store documents                                                         *)
(***************************************************************************)
\* createIncident's new document (escalated is absent, which reads as false;
\* completed_by and completed_at are absent until an assignment is completed)
NewIncident(userKind, userId, location, category, priority, alertTitle) ==
  [ user_kind |-> userKind,
    user_id |-> userId,
    location |-> location,
    category |-> category,
    alert_title |-> alertTitle,
    status |-> "new",
    priority |-> priority,
    assigned_to |-> Null,
    created_at |-> now,
    resolved_at |-> NoTime,
    sla_deadline |-> NoTime,
    sla_started_at |-> NoTime,
    escalated |-> FALSE,
    escalated_at |-> NoTime,
    completed_by |-> Null,
    completed_at |-> NoTime ]

\* createNotification's document
Notification(userKind, userId, type, incidentId) ==
  [ user_kind |-> userKind, user_id |-> userId, type |-> type, incident_id |-> incidentId ]

createNotification(userKind, userId, type, incidentId) ==
  notifications' = notifications (+) SetToBag({Notification(userKind, userId, type, incidentId)})

\* detectPriority on the title and description of an alert incident: the
\* title "Critical Alert: Predicted Failure at ..." holds high priority keywords
detectPriorityOfAlert == 5

(***************************************************************************)
(* Quality Gate Filter                                                     *)
(***************************************************************************)
\* variant: the confidence threshold read as exclusive (<= for <)
passesQualityGatesExclusive(alert) ==
  IF alert.confidence # Undefined /\ alert.confidence <= MIN_CONFIDENCE_THRESHOLD
  THEN FALSE
  ELSE IF alert.days_to_next_failure > MAX_DAYS_TO_FAILURE
  THEN FALSE
  ELSE IF alert.model_r2 # Undefined /\ alert.model_r2 < MIN_MODEL_R2
  THEN FALSE
  ELSE TRUE

passesQualityGates(alert) ==
  IF alert.confidence # Undefined /\ alert.confidence < MIN_CONFIDENCE_THRESHOLD
  THEN FALSE
  ELSE IF alert.days_to_next_failure > MAX_DAYS_TO_FAILURE
  THEN FALSE
  ELSE IF alert.model_r2 # Undefined /\ alert.model_r2 < MIN_MODEL_R2
  THEN FALSE
  ELSE TRUE

(***************************************************************************)
(* Deduplication & Cooldown Guard, Rate Limiter                            *)
(***************************************************************************)
isInCooldownPeriod(location, category) ==
  LET cooldownStart == now - Hours(COOLDOWN_PERIOD_HOURS)
  IN \E i \in 1..Len(incidents) :
       /\ incidents[i].location = location
       /\ incidents[i].category = category
       /\ incidents[i].created_at >= cooldownStart
       /\ incidents[i].assigned_to # Null

\* variant: the deduplication query without its location
findExistingIncidentAnywhere(location, category) ==
  LET windowStart == now - Hours(DEDUPLICATION_WINDOW_HOURS)
      found == { i \in 1..Len(incidents) :
                   /\ incidents[i].category = category
                   /\ incidents[i].created_at >= windowStart
                   /\ incidents[i].status \in {"new", "in-progress", "pending"} }
  IN IF found = {} THEN Null ELSE CHOOSE i \in found : \A j \in found : i <= j

\* the open incident of the window, Null when none
findExistingIncident(location, category) ==
  LET windowStart == now - Hours(DEDUPLICATION_WINDOW_HOURS)
      found == { i \in 1..Len(incidents) :
                   /\ incidents[i].location = location
                   /\ incidents[i].category = category
                   /\ incidents[i].created_at >= windowStart
                   /\ incidents[i].status \in {"new", "in-progress", "pending"} }
  IN IF found = {} THEN Null ELSE CHOOSE i \in found : \A j \in found : i <= j

\* today.setHours(0, 0, 0, 0)
Today == (now \div Day) * Day

technicianAssignmentsToday(technicianId) ==
  Cardinality({ i \in 1..Len(incidents) :
                  /\ incidents[i].assigned_to = technicianId
                  /\ incidents[i].created_at >= Today
                  /\ incidents[i].created_at < Today + Day
                  /\ incidents[i].alert_title })

systemAssignmentsToday ==
  Cardinality({ i \in 1..Len(incidents) :
                  /\ incidents[i].created_at >= Today
                  /\ incidents[i].created_at < Today + Day
                  /\ incidents[i].alert_title })

(***************************************************************************)
(* Process-local state                                                     *)
(***************************************************************************)
SweepProcs == (NumAlertProcs + 2)..(NumAlertProcs + 1 + NumSweepProcs)
Procs == AllAlertProcs \cup SweepProcs

\* analyzeIncidentAging: the aging buckets, in minutes; the last one has
\* max: Infinity
agingBuckets ==
  << [min |-> 0,   max |-> 5,   unbounded |-> FALSE],
     [min |-> 5,   max |-> 10,  unbounded |-> FALSE],
     [min |-> 10,  max |-> 15,  unbounded |-> FALSE],
     [min |-> 15,  max |-> 30,  unbounded |-> FALSE],
     [min |-> 30,  max |-> 60,  unbounded |-> FALSE],
     [min |-> 60,  max |-> 120, unbounded |-> FALSE],
     [min |-> 120, max |-> 240, unbounded |-> FALSE],
     [min |-> 240, max |-> 240, unbounded |-> TRUE] >>

\* ageMinutes >= bucket.min && ageMinutes < bucket.max
InBucket(age, bucket) ==
  age >= bucket.min /\ (bucket.unbounded \/ age < bucket.max)

\* for (const bucket of buckets) { if (...) { push; break } }: the index of
\* the first bucket that takes the age, 0 when none does
RECURSIVE FirstBucket(_, _)
FirstBucket(age, b) ==
  IF b > Len(agingBuckets) THEN 0
  ELSE IF InBucket(age, agingBuckets[b]) THEN b
  ELSE FirstBucket(age, b + 1)

\* if (ageMinutes > SLA_MINUTES) slaBreaches++
IsSlaBreach(age) == age > SLA_MINUTES

\* variant: at risk without the upper limit
IsAtRiskFromThreshold(age) ==
  age * 100 >= SLA_MINUTES * WARNING_THRESHOLD_PERCENT

\* if (ageMinutes >= SLA_MINUTES * WARNING_THRESHOLD && ageMinutes <= SLA_MINUTES) atRisk++
IsAtRisk(age) ==
  age * 100 >= SLA_MINUTES * WARNING_THRESHOLD_PERCENT /\ age <= SLA_MINUTES

\* the counters of the forEach loop
RECURSIVE CountBreaches(_)
CountBreaches(ages) ==
  IF ages = <<>> THEN 0
  ELSE (IF IsSlaBreach(Head(ages)) THEN 1 ELSE 0) + CountBreaches(Tail(ages))

RECURSIVE CountAtRisk(_)
CountAtRisk(ages) ==
  IF ages = <<>> THEN 0
  ELSE (IF IsAtRisk(Head(ages)) THEN 1 ELSE 0) + CountAtRisk(Tail(ages))

\* ages.reduce((a, b) => a + b, 0)
RECURSIVE SumOfAges(_)
SumOfAges(ages) ==
  IF ages = <<>> THEN 0 ELSE Head(ages) + SumOfAges(Tail(ages))

\* Math.max(...ages)
RECURSIVE MaxOfAges(_)
MaxOfAges(ages) ==
  IF Len(ages) = 1 THEN Head(ages)
  ELSE IF Head(ages) >= MaxOfAges(Tail(ages)) THEN Head(ages)
  ELSE MaxOfAges(Tail(ages))

\* Math.round(sum / length) of non-negative ages, 0 for no ages
averageAge(ages) ==
  IF ages = <<>> THEN 0
  ELSE (2 * SumOfAges(ages) + Len(ages)) \div (2 * Len(ages))

\* no AgingAnalysis has been returned
NoAnalysis ==
  [ returned |-> FALSE, now |-> NoTime,
    buckets |-> [b \in 1..Len(agingBuckets) |-> {}],
    average_age |-> 0, oldest_incident_age |-> 0, sla_breaches |-> 0, at_risk |-> 0 ]

\* the locals of one PATCH /api/technicians/assignments/[id]
IdleAssignment == [ pc |-> "idle", id |-> Null ]

IdleCall ==
  [ pc |-> "idle", incident |-> Null, time |-> NoTime,
    available |-> <<>>, idx |-> 0, cands |-> <<>>, best |-> Null, schedule |-> Null ]

NoAlert ==
  [ location |-> "", category |-> "", days_to_next_failure |-> 0,
    confidence |-> Undefined, model_r2 |-> Undefined ]

NoCur == [ assigned_to |-> Null, status |-> "", sla_deadline |-> NoTime ]

NoResult ==
  [ returned |-> "pending", incidentId |-> Null, technicianId |-> Null, slaDeadline |-> NoTime ]

NullResult ==
  [ returned |-> "null", incidentId |-> Null, technicianId |-> Null, slaDeadline |-> NoTime ]

IdleAlert ==
  [ pc |-> "idle", alert |-> NoAlert, preds |-> {}, started |-> NoTime, finished |-> NoTime,
    technician |-> Null, incident |-> Null, cur |-> NoCur,
    slaDeadline |-> NoTime, slaStartedAt |-> NoTime, schedule |-> Null, result |-> NoResult ]

(***************************************************************************)
(* autoAssignTechnician(incidentId, category, scheduledTime), with         *)
(* findAvailableTechnicians and createSchedule inlined as its steps.       *)
(***************************************************************************)
\* variant: the first candidate, without the sort
bestTechnicianUnsorted(cands) == cands[1].id

\* availableTechnicians.sort((a, b) => a.current_assignments - b.current_assignments)[0]
\* (the sort is stable): the first technician of the least load
bestTechnician(cands) ==
  LET k == CHOOSE k \in 1..Len(cands) :
             /\ \A j \in 1..Len(cands) :
                  cands[k].current_assignments <= cands[j].current_assignments
             /\ \A j \in 1..(k - 1) :
                  cands[j].current_assignments > cands[k].current_assignments
  IN cands[k].id

\* findAvailableTechnicians: getTechnicians() and the filter
FindAvailableTechnicians(p) ==
  /\ call[p].pc = "getTechs"
  /\ LET available == SelectSeq(getTechnicians, Eligible)
     IN call' = [call EXCEPT ![p].available = available,
                             ![p].idx = 1,
                             ![p].cands = <<>>,
                             ![p].pc = IF available = <<>> THEN "returned" ELSE "overlap"]
  /\ UNCHANGED <<now, ticks, technicians, incidents, schedules, notifications, ap, sw, env>>

\* findAvailableTechnicians: one hasOverlappingSchedule of the loop; after the
\* last one autoAssignTechnician picks the best technician or returns null
CheckOverlapOfCandidate(p) ==
  /\ call[p].pc = "overlap"
  /\ LET tech == call[p].available[call[p].idx]
         cands == IF hasOverlappingSchedule(tech.id, call[p].time, DEFAULT_DURATION_MINUTES)
                  THEN call[p].cands
                  ELSE Append(call[p].cands, tech)
         last == call[p].idx = Len(call[p].available)
     IN call' = [call EXCEPT ![p].cands = cands,
                             ![p].idx = call[p].idx + 1,
                             ![p].best = IF last /\ cands # <<>> THEN bestTechnician(cands)
                                         ELSE Null,
                             ![p].pc = IF ~last THEN "overlap"
                                       ELSE IF cands = <<>> THEN "returned"
                                       ELSE "csOverlap"]
  /\ UNCHANGED <<now, ticks, technicians, incidents, schedules, notifications, ap, sw, env>>

\* createSchedule: hasOverlappingSchedule, throws on overlap
CreateScheduleCheckOverlap(p) ==
  /\ call[p].pc = "csOverlap"
  /\ call' = [call EXCEPT ![p].pc =
                IF hasOverlappingSchedule(call[p].best, call[p].time, DEFAULT_DURATION_MINUTES)
                THEN "threw" ELSE "csTech"]
  /\ UNCHANGED <<now, ticks, technicians, incidents, schedules, notifications, ap, sw, env>>

\* createSchedule: getTechnicianById, throws when unavailable or at capacity
CreateScheduleCheckTechnician(p) ==
  /\ call[p].pc = "csTech"
  /\ LET technician == Technician(call[p].best)
     IN call' = [call EXCEPT ![p].pc =
                   IF ~technician.available THEN "threw"
                   ELSE IF technician.current_assignments >= technician.max_concurrent
                   THEN "threw"
                   ELSE "csInsert"]
  /\ UNCHANGED <<now, ticks, technicians, incidents, schedules, notifications, ap, sw, env>>

\* createSchedule: scheduleCollection.insertOne(schedule)
CreateScheduleInsert(p) ==
  /\ call[p].pc = "csInsert"
  /\ schedules' = Append(schedules,
       [ technician_id |-> call[p].best,
         incident_id |-> call[p].incident,
         scheduled_time |-> call[p].time,
         duration_minutes |-> DEFAULT_DURATION_MINUTES,
         status |-> "scheduled" ])
  /\ call' = [call EXCEPT ![p].schedule = Len(schedules) + 1, ![p].pc = "csInc"]
  /\ UNCHANGED <<now, ticks, technicians, incidents, notifications, ap, sw, env>>

\* updateTechnicianAssignmentCount(technicianId, delta): $inc
updateTechnicianAssignmentCount(technicianId, delta) ==
  technicians' = [technicians EXCEPT ![technicianId].current_assignments = @ + delta]

\* createSchedule: updateTechnicianAssignmentCount(data.technician_id, 1)
CreateScheduleIncrement(p) ==
  /\ call[p].pc = "csInc"
  /\ updateTechnicianAssignmentCount(call[p].best, 1)
  /\ call' = [call EXCEPT ![p].pc = "csNotify"]
  /\ UNCHANGED <<now, ticks, incidents, schedules, notifications, ap, sw, env>>

\* createSchedule: notifyTechnicianAssignment, then the schedule is returned
CreateScheduleNotify(p) ==
  /\ call[p].pc = "csNotify"
  /\ createNotification("technician", call[p].best, "technician_assigned", call[p].incident)
  /\ call' = [call EXCEPT ![p].pc = "returned"]
  /\ UNCHANGED <<now, ticks, technicians, incidents, schedules, ap, sw, env>>

\* createSchedule: notifyTechnicianAssignment throws (the insertOne of
\* createNotification fails); the catch logs it and the schedule is returned
CreateScheduleNotifyFails(p) ==
  /\ call[p].pc = "csNotify"
  /\ call' = [call EXCEPT ![p].pc = "returned"]
  /\ UNCHANGED <<now, ticks, technicians, incidents, schedules, notifications, ap, sw, env>>

(***************************************************************************)
(* createAndAssignCriticalAlert(alert): submitAlert                        *)
(***************************************************************************)
AlertReturnsNull(p) ==
  ap' = [ap EXCEPT ![p].pc = "done", ![p].result = NullResult, ![p].finished = now]

\* the request arrives; quality gate 1 (passesQualityGates) is synchronous
SubmitAlert(p, alert) ==
  /\ ap[p].pc = "idle"
  /\ LET started == [ap[p] EXCEPT !.alert = alert,
                                  !.started = now,
                                  !.preds = { q \in AllAlertProcs : ap[q].pc = "done" }]
     IN ap' = [ap EXCEPT ![p] =
                 IF passesQualityGates(alert)
                 THEN [started EXCEPT !.pc = "cooldown"]
                 ELSE [started EXCEPT !.pc = "done", !.result = NullResult, !.finished = now]]
  /\ UNCHANGED <<now, ticks, technicians, incidents, schedules, notifications, call, sw, env>>

\* quality gate 2: isInCooldownPeriod
AlertCheckCooldown(p) ==
  /\ ap[p].pc = "cooldown"
  /\ IF isInCooldownPeriod(ap[p].alert.location, ap[p].alert.category)
     THEN AlertReturnsNull(p)
     ELSE ap' = [ap EXCEPT ![p].pc = "dedup"]
  /\ UNCHANGED <<now, ticks, technicians, incidents, schedules, notifications, call, sw, env>>

\* variant: the incident is inserted before the deduplication check
AlertCheckExistingAfterInsert(p) ==
  /\ ap[p].pc = "dedup"
  /\ incidents' = Append(incidents,
       NewIncident("admin", 1, ap[p].alert.location,
                   ap[p].alert.category, detectPriorityOfAlert, TRUE))
  /\ IF findExistingIncident(ap[p].alert.location, ap[p].alert.category) # Null
     THEN AlertReturnsNull(p)
     ELSE ap' = [ap EXCEPT ![p].pc = "findTech"]
  /\ UNCHANGED <<now, ticks, technicians, schedules, notifications, call, sw, env>>

\* quality gate 3: findExistingIncident
AlertCheckExisting(p) ==
  /\ ap[p].pc = "dedup"
  /\ IF findExistingIncident(ap[p].alert.location, ap[p].alert.category) # Null
     THEN AlertReturnsNull(p)
     ELSE ap' = [ap EXCEPT ![p].pc = "findTech"]
  /\ UNCHANGED <<now, ticks, technicians, incidents, schedules, notifications, call, sw, env>>

\* findTechnicianBySpecialization and quality gate 4 (capacity of the
\* technician just read)
AlertFindTechnician(p) ==
  /\ ap[p].pc = "findTech"
  /\ LET technician == findTechnicianBySpecialization(ap[p].alert.category)
     IN IF technician = Null
        THEN AlertReturnsNull(p)
        ELSE IF Technician(technician).current_assignments >= Technician(technician).max_concurrent
        THEN AlertReturnsNull(p)
        ELSE ap' = [ap EXCEPT ![p].technician = technician, ![p].pc = "rateTech"]
  /\ UNCHANGED <<now, ticks, technicians, incidents, schedules, notifications, call, sw, env>>

\* variant: the technician's cap compared with > for >=
AlertCheckTechnicianRateOffByOne(p) ==
  /\ ap[p].pc = "rateTech"
  /\ IF technicianAssignmentsToday(ap[p].technician) > MAX_ASSIGNMENTS_PER_TECHNICIAN_PER_DAY
     THEN AlertReturnsNull(p)
     ELSE ap' = [ap EXCEPT ![p].pc = "rateSystem"]
  /\ UNCHANGED <<now, ticks, technicians, incidents, schedules, notifications, call, sw, env>>

\* quality gate 5, checkRateLimits: the technician's count of today
AlertCheckTechnicianRate(p) ==
  /\ ap[p].pc = "rateTech"
  /\ IF technicianAssignmentsToday(ap[p].technician) >= MAX_ASSIGNMENTS_PER_TECHNICIAN_PER_DAY
     THEN AlertReturnsNull(p)
     ELSE ap' = [ap EXCEPT ![p].pc = "rateSystem"]
  /\ UNCHANGED <<now, ticks, technicians, incidents, schedules, notifications, call, sw, env>>

\* quality gate 5, checkRateLimits: the system-wide count of today
AlertCheckSystemRate(p) ==
  /\ ap[p].pc = "rateSystem"
  /\ IF systemAssignmentsToday >= MAX_SYSTEM_WIDE_ASSIGNMENTS_PER_DAY
     THEN AlertReturnsNull(p)
     ELSE ap' = [ap EXCEPT ![p].pc = "create"]
  /\ UNCHANGED <<now, ticks, technicians, incidents, schedules, notifications, call, sw, env>>

\* no userId is passed by processCriticalAlerts: the incident's user is the
\* first admin, or the technician when there is no admin
incidentUserKind == IF NumAdmins > 0 THEN "admin" ELSE "technician"
incidentUserId(technicianId) == IF NumAdmins > 0 THEN 1 ELSE technicianId

\* createIncident(incidentData, true): insertOne
AlertCreateIncident(p) ==
  /\ ap[p].pc = "create"
  /\ incidents' = Append(incidents,
       NewIncident(incidentUserKind, incidentUserId(ap[p].technician),
                   ap[p].alert.location, ap[p].alert.category, detectPriorityOfAlert, TRUE))
  /\ ap' = [ap EXCEPT ![p].incident = Len(incidents) + 1, ![p].pc = "readCurrent"]
  /\ UNCHANGED <<now, ticks, technicians, schedules, notifications, call, sw, env>>

\* createIncident throws (its insertOne fails): the outer catch logs the
\* error and rethrows it to the caller
ThrownResult ==
  [ returned |-> "threw", incidentId |-> Null, technicianId |-> Null, slaDeadline |-> NoTime ]

AlertCreateIncidentFails(p) ==
  /\ ap[p].pc = "create"
  /\ ap' = [ap EXCEPT ![p].pc = "done", ![p].result = ThrownResult, ![p].finished = now]
  /\ UNCHANGED <<now, ticks, technicians, incidents, schedules, notifications, call, sw, env>>

\* incidentsCollection.findOne(incident): "already assigned" returns at once
AlertReadCurrent(p) ==
  /\ ap[p].pc = "readCurrent"
  /\ LET currentIncident == incidents[ap[p].incident]
         cur == [ assigned_to |-> currentIncident.assigned_to,
                  status |-> currentIncident.status,
                  sla_deadline |-> currentIncident.sla_deadline ]
     IN IF cur.assigned_to # Null /\ cur.assigned_to = ap[p].technician
        THEN ap' = [ap EXCEPT ![p].cur = cur,
                              ![p].pc = "done",
                              ![p].finished = now,
                              ![p].result =
                                [ returned |-> "value",
                                  incidentId |-> ap[p].incident,
                                  technicianId |-> ap[p].technician,
                                  slaDeadline |-> IF cur.sla_deadline # NoTime
                                                  THEN cur.sla_deadline
                                                  ELSE now + Minutes(SLA_MINUTES) ]]
        ELSE ap' = [ap EXCEPT ![p].cur = cur, ![p].pc = "slaDeadline"]
  /\ UNCHANGED <<now, ticks, technicians, incidents, schedules, notifications, call, sw, env>>

\* const slaDeadline = new Date(Date.now() + SLA_MINUTES * 60 * 1000)
AlertComputeDeadline(p) ==
  /\ ap[p].pc = "slaDeadline"
  /\ ap' = [ap EXCEPT ![p].slaDeadline = now + Minutes(SLA_MINUTES), ![p].pc = "slaStartedAt"]
  /\ UNCHANGED <<now, ticks, technicians, incidents, schedules, notifications, call, sw, env>>

\* const slaStartedAt = new Date()
AlertReadStartedAt(p) ==
  /\ ap[p].pc = "slaStartedAt"
  /\ ap' = [ap EXCEPT ![p].slaStartedAt = now, ![p].pc = "assign"]
  /\ UNCHANGED <<now, ticks, technicians, incidents, schedules, notifications, call, sw, env>>

\* autoAssignTechnician(incident.id, alert.category, now + 5 minutes) is called
AlertCallAutoAssign(p) ==
  /\ ap[p].pc = "assign"
  /\ call[p].pc = "idle"
  /\ call' = [call EXCEPT ![p] =
       [IdleCall EXCEPT !.pc = "getTechs",
                        !.incident = ap[p].incident,
                        !.time = now + Minutes(SCHEDULE_OFFSET_MINUTES)]]
  /\ ap' = [ap EXCEPT ![p].pc = "awaitAssign"]
  /\ UNCHANGED <<now, ticks, technicians, incidents, schedules, notifications, sw, env>>

\* variant: the incident is updated only when a schedule was created
AlertUpdateIncidentIfScheduled(p) ==
  /\ ap[p].pc = "awaitAssign"
  /\ call[p].pc \in {"returned", "threw"}
  /\ IF call[p].pc = "returned" /\ call[p].schedule # Null
     THEN incidents' = [incidents EXCEPT ![ap[p].incident] =
            [@ EXCEPT !.assigned_to = ap[p].technician,
                      !.sla_deadline = ap[p].slaDeadline,
                      !.sla_started_at = ap[p].slaStartedAt,
                      !.priority = 5,
                      !.status = IF ap[p].cur.status = "resolved" THEN "resolved"
                                 ELSE "in-progress"]]
     ELSE UNCHANGED incidents
  /\ ap' = [ap EXCEPT ![p].schedule = IF call[p].pc = "returned" THEN call[p].schedule
                                      ELSE Null,
                      ![p].pc = "notify"]
  /\ call' = [call EXCEPT ![p] = IdleCall]
  /\ UNCHANGED <<now, ticks, technicians, schedules, notifications, sw, env>>

\* autoAssignTechnician has returned or thrown (schedule stays null); the
\* incident is updated "regardless of schedule creation"
AlertUpdateIncident(p) ==
  /\ ap[p].pc = "awaitAssign"
  /\ call[p].pc \in {"returned", "threw"}
  /\ incidents' = [incidents EXCEPT ![ap[p].incident] =
       [@ EXCEPT !.assigned_to = ap[p].technician,
                 !.sla_deadline = ap[p].slaDeadline,
                 !.sla_started_at = ap[p].slaStartedAt,
                 !.priority = 5,
                 !.status = IF ap[p].cur.status = "resolved" THEN "resolved"
                            ELSE "in-progress"]]
  /\ ap' = [ap EXCEPT ![p].schedule = IF call[p].pc = "returned" THEN call[p].schedule
                                      ELSE Null,
                      ![p].pc = "notify"]
  /\ call' = [call EXCEPT ![p] = IdleCall]
  /\ UNCHANGED <<now, ticks, technicians, schedules, notifications, sw, env>>

\* createNotification to the technician, then the result is returned
AlertNotifyAndReturn(p) ==
  /\ ap[p].pc = "notify"
  /\ createNotification("technician", ap[p].technician, "assignment", ap[p].incident)
  /\ ap' = [ap EXCEPT ![p].pc = "done",
                      ![p].finished = now,
                      ![p].result = [ returned |-> "value",
                                      incidentId |-> ap[p].incident,
                                      technicianId |-> ap[p].technician,
                                      slaDeadline |-> ap[p].slaDeadline ]]
  /\ UNCHANGED <<now, ticks, technicians, incidents, schedules, call, sw, env>>

\* createNotification throws; the catch logs it and the result is returned
AlertNotifyFails(p) ==
  /\ ap[p].pc = "notify"
  /\ ap' = [ap EXCEPT ![p].pc = "done",
                      ![p].finished = now,
                      ![p].result = [ returned |-> "value",
                                      incidentId |-> ap[p].incident,
                                      technicianId |-> ap[p].technician,
                                      slaDeadline |-> ap[p].slaDeadline ]]
  /\ UNCHANGED <<now, ticks, technicians, incidents, schedules, notifications, call, sw, env>>

\* processCriticalAlerts: the entry pushed to results for an alert, from
\* what createAndAssignCriticalAlert returned or threw for it
ResultEntry(alert, result) ==
  IF result.returned = "value"
  THEN [ alert |-> [location |-> alert.location, category |-> alert.category],
         success |-> TRUE,
         incidentId |-> result.incidentId,
         technicianId |-> result.technicianId,
         error |-> "" ]
  ELSE [ alert |-> [location |-> alert.location, category |-> alert.category],
         success |-> FALSE,
         incidentId |-> Undefined,
         technicianId |-> Undefined,
         error |-> IF result.returned = "null" THEN "No available technician found"
                   ELSE "insertOne failed" ]

\* processCriticalAlerts: failed++ in the else branch and in the catch
CountsAsFailed(result) == result.returned # "value"

\* processCriticalAlerts: the loop awaits one alert, then submits the next
AlertRestart(p) ==
  /\ ap[p].pc = "done"
  /\ env.calls + 1 < MaxCalls
  /\ ap' = [ap EXCEPT ![p] = IdleAlert]
  /\ env' = [env EXCEPT !.calls = @ + 1]
  /\ UNCHANGED <<now, ticks, technicians, incidents, schedules, notifications, call, sw>>

(***************************************************************************)
(* Incident Store Adapter: reports and updates                             *)
(***************************************************************************)
\* checkDuplicateIncident: same category and location, created today
checkDuplicateIncident(category, location) ==
  \E i \in 1..Len(incidents) :
    /\ incidents[i].category = category
    /\ incidents[i].location = location
    /\ incidents[i].created_at >= Today
    /\ incidents[i].created_at < Today + Day

\* POST /api/incidents: createIncident(data) of a user's report, then
\* notifyNewComplaint; a duplicate is rejected and leaves the store
\* unchanged.  The priority is detected from the text of the report.
ReportIncident(location, category, priority) ==
  /\ env.reports < MaxReports
  /\ ~checkDuplicateIncident(category, location)
  /\ incidents' = Append(incidents,
       NewIncident("user", 1, location, category, priority, FALSE))
  /\ createNotification("user", 1, "new_complaint", Len(incidents) + 1)
  /\ env' = [env EXCEPT !.reports = @ + 1]
  /\ UNCHANGED <<now, ticks, technicians, schedules, ap, call, sw>>

\* a field that the body of a PATCH request does not carry
NotGiven == "undefined"

\* updateIncident(id, data): $set of the fields that are given
updateIncident(incident, status, assignedTo) ==
  [incident EXCEPT
     !.status = IF status # NotGiven THEN status ELSE @,
     !.assigned_to = IF assignedTo # Undefined THEN assignedTo ELSE @,
     !.resolved_at = IF status = "resolved" THEN now ELSE @]

\* PATCH /api/incidents/[id]: the notifications that follow the update
PatchNotifications(id, old, status, assignedTo) ==
  (IF status = "resolved" /\ old.status # "resolved"
   THEN SetToBag({Notification(old.user_kind, old.user_id, "issue_resolved", id)})
   ELSE EmptyBag)
  (+)
  (IF assignedTo \notin {Undefined, Null} /\ assignedTo # old.assigned_to
   THEN SetToBag({Notification("technician", assignedTo, "technician_assigned", id)})
   ELSE EmptyBag)
  (+)
  (IF status = "in-progress" /\ old.status # "in-progress" /\ assignedTo \in {Undefined, Null}
   THEN SetToBag({Notification(old.user_kind, old.user_id, "technician_assigned", id)})
   ELSE EmptyBag)

\* PATCH /api/incidents/[id] with body {status?, assigned_to?}
PatchIncident(id, status, assignedTo) ==
  /\ env.updates < MaxUpdates
  /\ id \in 1..Len(incidents)
  /\ incidents' = [incidents EXCEPT ![id] = updateIncident(@, status, assignedTo)]
  /\ notifications' = notifications (+) PatchNotifications(id, incidents[id], status, assignedTo)
  /\ env' = [env EXCEPT !.updates = @ + 1]
  /\ UNCHANGED <<now, ticks, technicians, schedules, ap, call, sw>>

(***************************************************************************)
(* PATCH /api/technicians/assignments/[id] with body {status}, for the id  *)
(* of a schedule                                                           *)
(***************************************************************************)
\* variant: a schedule that is completed or cancelled gives its technician's
\* slot back
PatchAssignmentReleasing(id, status) ==
  /\ env.assignment.pc = "idle"
  /\ env.updates < MaxUpdates
  /\ id \in 1..Len(schedules)
  /\ schedules' = [schedules EXCEPT ![id].status = status]
  /\ technicians' = [technicians EXCEPT ![schedules[id].technician_id].current_assignments =
                       IF status \in {"completed", "cancelled"} /\ @ > 0 THEN @ - 1 ELSE @]
  /\ env' = [env EXCEPT !.updates = @ + 1,
                        !.assignment = IF status = "completed"
                                       THEN [pc |-> "complete", id |-> id]
                                       ELSE IdleAssignment]
  /\ UNCHANGED <<now, ticks, incidents, notifications, ap, call, sw>>

\* getScheduleById, getIncidentById, then updateScheduleStatus(id, status);
\* the request goes on to the incident only when the status is completed
PatchAssignment(id, status) ==
  /\ env.assignment.pc = "idle"
  /\ env.updates < MaxUpdates
  /\ id \in 1..Len(schedules)
  /\ schedules' = [schedules EXCEPT ![id].status = status]
  /\ env' = [env EXCEPT !.updates = @ + 1,
                        !.assignment = IF status = "completed"
                                       THEN [pc |-> "complete", id |-> id]
                                       ELSE IdleAssignment]
  /\ UNCHANGED <<now, ticks, technicians, incidents, notifications, ap, call, sw>>

\* getScheduleById again for the technician, then updateIncident(incidentId,
\* {status: "resolved", resolved_at, completed_by, completed_at})
PatchAssignmentComplete ==
  /\ env.assignment.pc = "complete"
  /\ LET schedule == schedules[env.assignment.id]
     IN incidents' = [incidents EXCEPT ![schedule.incident_id] =
          [ updateIncident(@, "resolved", Undefined)
              EXCEPT !.completed_by = schedule.technician_id,
                     !.completed_at = now ]]
  /\ env' = [env EXCEPT !.assignment.pc = "notify"]
  /\ UNCHANGED <<now, ticks, technicians, schedules, notifications, ap, call, sw>>

\* notifyIssueResolved for the reporter and a task_completed notification
\* for every administrator, then the response
PatchAssignmentNotify ==
  /\ env.assignment.pc = "notify"
  /\ LET incidentId == schedules[env.assignment.id].incident_id
     IN notifications' = notifications
          (+) SetToBag({Notification(incidents[incidentId].user_kind,
                                     incidents[incidentId].user_id,
                                     "issue_resolved", incidentId)})
          (+) SetToBag({Notification("admin", a, "task_completed", incidentId) : a \in Admins})
  /\ env' = [env EXCEPT !.assignment = IdleAssignment]
  /\ UNCHANGED <<now, ticks, technicians, incidents, schedules, ap, call, sw>>

(***************************************************************************)
(* Escalation Sweep: checkAndEscalateSLA                                   *)
(***************************************************************************)
\* the locals of one POST /api/escalation/check; storeFailed records that a
\* store access of the run has failed
IdleSweep ==
  [ pc |-> "idle", incidents |-> <<>>, idx |-> 0, now |-> NoTime,
    admin |-> 0, escalatedCount |-> 0,
    scheduledAssignments |-> <<>>, aidx |-> 0, rescheduledCount |-> 0,
    storeFailed |-> FALSE ]

\* find(query).sort({created_at: -1}): ids, newest first (ties in insertion order)
RECURSIVE ByCreatedDesc(_)
ByCreatedDesc(ids) ==
  IF ids = {} THEN <<>>
  ELSE LET first == CHOOSE i \in ids : \A j \in ids :
                      \/ incidents[i].created_at > incidents[j].created_at
                      \/ (incidents[i].created_at = incidents[j].created_at /\ i <= j)
       IN <<first>> \o ByCreatedDesc(ids \ {first})

\* getIncidents({status})
getIncidents(status) ==
  ByCreatedDesc({ i \in 1..Len(incidents) : incidents[i].status = status })

\* Math.floor((now - createdTime) / 60000)
ageMinutes(id, nowRead) == (nowRead - incidents[id].created_at) \div UnitsPerMinute

\* the for loop up to its next await: the first incident from index k on
\* whose age exceeds the SLA (Len + 1 when the loop ends)
RECURSIVE NextOverdue(_, _, _)
NextOverdue(list, k, nowRead) ==
  IF k > Len(list) THEN k
  ELSE IF ageMinutes(list[k], nowRead) > SLA_MINUTES THEN k
  ELSE NextOverdue(list, k + 1, nowRead)

\* the sweep moves on to the incident at index k, or returns
SweepAdvance(p, k, escalatedCount) ==
  sw' = [sw EXCEPT ![p].idx = k,
                   ![p].admin = 0,
                   ![p].escalatedCount = escalatedCount,
                   ![p].pc = IF k > Len(sw[p].incidents) THEN "done" ELSE "findOne"]

\* getIncidents({status: "new"})
SweepReadNew(p) ==
  /\ sw[p].pc = "idle"
  /\ sw' = [sw EXCEPT ![p].incidents = getIncidents("new"), ![p].pc = "readInProgress"]
  /\ UNCHANGED <<now, ticks, technicians, incidents, schedules, notifications, ap, call, env>>

\* getIncidents({status: "in-progress"}), then now = new Date() and the loop
\* runs to its first overdue incident
SweepReadInProgress(p) ==
  /\ sw[p].pc = "readInProgress"
  /\ LET list == sw[p].incidents \o getIncidents("in-progress")
         k == NextOverdue(list, 1, now)
     IN sw' = [sw EXCEPT ![p].incidents = list,
                         ![p].now = now,
                         ![p].idx = k,
                         ![p].pc = IF k > Len(list) THEN "done" ELSE "findOne"]
  /\ UNCHANGED <<now, ticks, technicians, incidents, schedules, notifications, ap, call, env>>

\* variant: the sweep without its "already escalated" check
SweepFindCurrentUnchecked(p) ==
  /\ sw[p].pc = "findOne"
  /\ sw' = [sw EXCEPT ![p].pc = "escalate"]
  /\ UNCHANGED <<now, ticks, technicians, incidents, schedules, notifications, ap, call, env>>

\* incidentsCollection.findOne: if (currentIncident && !currentIncident.escalated)
SweepFindCurrent(p) ==
  /\ sw[p].pc = "findOne"
  /\ LET currentIncident == incidents[sw[p].incidents[sw[p].idx]]
     IN IF ~currentIncident.escalated
        THEN sw' = [sw EXCEPT ![p].pc = "escalate"]
        ELSE SweepAdvance(p, NextOverdue(sw[p].incidents, sw[p].idx + 1, sw[p].now),
                          sw[p].escalatedCount)
  /\ UNCHANGED <<now, ticks, technicians, incidents, schedules, notifications, ap, call, env>>

\* updateOne: $set {escalated: true, escalated_at: new Date()}
SweepEscalate(p) ==
  /\ sw[p].pc = "escalate"
  /\ incidents' = [incidents EXCEPT ![sw[p].incidents[sw[p].idx]] =
       [@ EXCEPT !.escalated = TRUE, !.escalated_at = now]]
  /\ sw' = [sw EXCEPT ![p].pc = "notifyUser"]
  /\ UNCHANGED <<now, ticks, technicians, schedules, notifications, ap, call, env>>

\* notifySLAExceeded(incident.user_id, ...), then the admins are read
SweepNotifyUser(p) ==
  /\ sw[p].pc = "notifyUser"
  /\ LET id == sw[p].incidents[sw[p].idx]
     IN createNotification(incidents[id].user_kind, incidents[id].user_id, "sla_exceeded", id)
  /\ IF NumAdmins = 0
     THEN SweepAdvance(p, NextOverdue(sw[p].incidents, sw[p].idx + 1, sw[p].now),
                       sw[p].escalatedCount + 1)
     ELSE sw' = [sw EXCEPT ![p].admin = 1, ![p].pc = "notifyAdmin"]
  /\ UNCHANGED <<now, ticks, technicians, incidents, schedules, ap, call, env>>

\* createNotification({user_id: admin, type: "escalation"}) of the admin loop;
\* after the last admin escalatedCount++
SweepNotifyAdmin(p) ==
  /\ sw[p].pc = "notifyAdmin"
  /\ createNotification("admin", sw[p].admin, "escalation", sw[p].incidents[sw[p].idx])
  /\ IF sw[p].admin = NumAdmins
     THEN SweepAdvance(p, NextOverdue(sw[p].incidents, sw[p].idx + 1, sw[p].now),
                       sw[p].escalatedCount + 1)
     ELSE sw' = [sw EXCEPT ![p].admin = @ + 1]
  /\ UNCHANGED <<now, ticks, technicians, incidents, schedules, ap, call, env>>

\* notifySLAExceeded throws (the insertOne of createNotification fails):
\* nothing catches it in checkAndEscalateSLA, the sweep ends with the error
SweepNotifyUserFails(p) ==
  /\ sw[p].pc = "notifyUser"
  /\ sw' = [sw EXCEPT ![p].pc = "threw"]
  /\ UNCHANGED <<now, ticks, technicians, incidents, schedules, notifications, ap, call, env>>

\* createNotification throws in the admin loop: the sweep ends with the error
SweepNotifyAdminFails(p) ==
  /\ sw[p].pc = "notifyAdmin"
  /\ sw' = [sw EXCEPT ![p].pc = "threw"]
  /\ UNCHANGED <<now, ticks, technicians, incidents, schedules, notifications, ap, call, env>>

\* getIncidents({status: "new"}) when the find fails: the catch of
\* getIncidents logs the error and returns []
SweepReadNewFails(p) ==
  /\ sw[p].pc = "idle"
  /\ sw' = [sw EXCEPT ![p].incidents = <<>>,
                      ![p].storeFailed = TRUE,
                      ![p].pc = "readInProgress"]
  /\ UNCHANGED <<now, ticks, technicians, incidents, schedules, notifications, ap, call, env>>

\* getIncidents({status: "in-progress"}) when the find fails: [] again, and
\* the loop runs over what the first read returned
SweepReadInProgressFails(p) ==
  /\ sw[p].pc = "readInProgress"
  /\ LET list == sw[p].incidents \o <<>>
         k == NextOverdue(list, 1, now)
     IN sw' = [sw EXCEPT ![p].incidents = list,
                         ![p].now = now,
                         ![p].idx = k,
                         ![p].storeFailed = TRUE,
                         ![p].pc = IF k > Len(list) THEN "done" ELSE "findOne"]
  /\ UNCHANGED <<now, ticks, technicians, incidents, schedules, notifications, ap, call, env>>

\* incidentsCollection.findOne fails: checkAndEscalateSLA throws
SweepFindCurrentFails(p) ==
  /\ sw[p].pc = "findOne"
  /\ sw' = [sw EXCEPT ![p].storeFailed = TRUE, ![p].pc = "threw"]
  /\ UNCHANGED <<now, ticks, technicians, incidents, schedules, notifications, ap, call, env>>

\* POST /api/escalation/check is requested again
SweepRestart(p) ==
  /\ sw[p].pc = "done"
  /\ env.sweeps + 1 < MaxSweeps
  /\ sw' = [sw EXCEPT ![p] = IdleSweep]
  /\ env' = [env EXCEPT !.sweeps = @ + 1]
  /\ UNCHANGED <<now, ticks, technicians, incidents, schedules, notifications, ap, call>>

(***************************************************************************)
(* autoRescheduleUnavailableTechnicians(), which POST /api/escalation/check *)
(* runs after checkAndEscalateSLA has returned                             *)
(***************************************************************************)
\* find({status: "scheduled", scheduled_time: {$gte: new Date()}}), in
\* insertion order
RECURSIVE FutureScheduled(_)
FutureScheduled(k) ==
  IF k > Len(schedules) THEN <<>>
  ELSE IF schedules[k].status = "scheduled" /\ schedules[k].scheduled_time >= now
  THEN <<k>> \o FutureScheduled(k + 1)
  ELSE FutureScheduled(k + 1)

\* the loop moves on to the next assignment, or the sweep returns
RescheduleAdvance(p, rescheduledCount) ==
  sw' = [sw EXCEPT ![p].aidx = @ + 1,
                   ![p].rescheduledCount = rescheduledCount,
                   ![p].pc = IF sw[p].aidx + 1 > Len(sw[p].scheduledAssignments)
                             THEN "rescheduled" ELSE "findTechnician"]

\* scheduleCollection.find(...).toArray()
RescheduleReadSchedules(p) ==
  /\ sw[p].pc = "done"
  /\ LET scheduledAssignments == FutureScheduled(1)
     IN sw' = [sw EXCEPT ![p].scheduledAssignments = scheduledAssignments,
                         ![p].aidx = 1,
                         ![p].rescheduledCount = 0,
                         ![p].pc = IF scheduledAssignments = <<>> THEN "rescheduled"
                                   ELSE "findTechnician"]
  /\ UNCHANGED <<now, ticks, technicians, incidents, schedules, notifications, ap, call, env>>

\* variant: the sweep treats every technician as unavailable
RescheduleFindTechnicianAlways(p) ==
  /\ sw[p].pc = "findTechnician"
  /\ sw' = [sw EXCEPT ![p].pc = "getIncident"]
  /\ UNCHANGED <<now, ticks, technicians, incidents, schedules, notifications, ap, call, env>>

\* usersCollection.findOne: if (technician && (!technician.available || !technician.active))
RescheduleFindTechnician(p) ==
  /\ sw[p].pc = "findTechnician"
  /\ LET assignment == schedules[sw[p].scheduledAssignments[sw[p].aidx]]
         technician == technicians[assignment.technician_id]
     IN IF Not(technician, "available") \/ Not(technician, "active")
        THEN sw' = [sw EXCEPT ![p].pc = "getIncident"]
        ELSE RescheduleAdvance(p, sw[p].rescheduledCount)
  /\ UNCHANGED <<now, ticks, technicians, incidents, schedules, notifications, ap, call, env>>

\* getIncidentById(assignment.incident_id), then autoAssignTechnician is
\* called with the assignment's incident and scheduled_time
RescheduleGetIncident(p) ==
  /\ sw[p].pc = "getIncident"
  /\ call[p].pc = "idle"
  /\ LET assignment == schedules[sw[p].scheduledAssignments[sw[p].aidx]]
     IN call' = [call EXCEPT ![p] =
          [IdleCall EXCEPT !.pc = "getTechs",
                           !.incident = assignment.incident_id,
                           !.time = assignment.scheduled_time]]
  /\ sw' = [sw EXCEPT ![p].pc = "awaitAssign"]
  /\ UNCHANGED <<now, ticks, technicians, incidents, schedules, notifications, ap, env>>

\* autoAssignTechnician has returned or thrown; if (newSchedule) the old
\* assignment is cancelled: updateOne $set {status: "cancelled"}
RescheduleCancelOld(p) ==
  /\ sw[p].pc = "awaitAssign"
  /\ call[p].pc \in {"returned", "threw"}
  /\ IF call[p].pc = "returned" /\ call[p].schedule # Null
     THEN /\ schedules' = [schedules EXCEPT
                 ![sw[p].scheduledAssignments[sw[p].aidx]].status = "cancelled"]
          /\ sw' = [sw EXCEPT ![p].pc = "notifyNew"]
          /\ UNCHANGED call
     ELSE /\ RescheduleAdvance(p, sw[p].rescheduledCount)
          /\ call' = [call EXCEPT ![p] = IdleCall]
          /\ UNCHANGED schedules
  /\ UNCHANGED <<now, ticks, technicians, incidents, notifications, ap, env>>

\* notifyTechnicianAssignment(newSchedule.technician_id, ...), rescheduledCount++
RescheduleNotifyNew(p) ==
  /\ sw[p].pc = "notifyNew"
  /\ createNotification("technician", schedules[call[p].schedule].technician_id,
                        "technician_assigned", call[p].incident)
  /\ RescheduleAdvance(p, sw[p].rescheduledCount + 1)
  /\ call' = [call EXCEPT ![p] = IdleCall]
  /\ UNCHANGED <<now, ticks, technicians, incidents, schedules, ap, env>>

\* POST /api/escalation/check is requested again after both sweeps
RescheduleRestart(p) ==
  /\ sw[p].pc = "rescheduled"
  /\ env.sweeps + 1 < MaxSweeps
  /\ sw' = [sw EXCEPT ![p] = IdleSweep]
  /\ env' = [env EXCEPT !.sweeps = @ + 1]
  /\ UNCHANGED <<now, ticks, technicians, incidents, schedules, notifications, ap, call>>

(***************************************************************************)
(* analyzeIncidentAging()                                                  *)
(***************************************************************************)
\* getIncidents(), now = new Date(), the forEach loop and the result
AnalyzeIncidentAging ==
  /\ ~env.aging.returned
  /\ LET list == ByCreatedDesc(1..Len(incidents))
         ages == [k \in 1..Len(list) |-> ageMinutes(list[k], now)]
     IN env' = [env EXCEPT !.aging =
          [ returned |-> TRUE,
            now |-> now,
            buckets |-> [b \in 1..Len(agingBuckets) |->
                          { list[k] : k \in { j \in 1..Len(list) : FirstBucket(ages[j], 1) = b } }],
            average_age |-> averageAge(ages),
            oldest_incident_age |-> IF ages = <<>> THEN 0 ELSE MaxOfAges(ages),
            sla_breaches |-> CountBreaches(ages),
            at_risk |-> CountAtRisk(ages) ]]
  /\ UNCHANGED <<now, ticks, technicians, incidents, schedules, notifications, ap, call, sw>>

(***************************************************************************)
(* The clock                                                               *)
(***************************************************************************)
Tick(d) ==
  /\ now' = now + d
  /\ ticks' = ticks + 1
  /\ UNCHANGED <<technicians, incidents, schedules, notifications, ap, call, sw, env>>

(***************************************************************************)
(* Initial state: the seeded technicians, empty collections, no request    *)
(* in flight.                                                              *)
(***************************************************************************)
Init ==
  /\ now = 0
  /\ ticks = 0
  /\ technicians = [id \in Techs |->
       [specialization |-> defaultTechnicians[id].specialization,
        active |-> TRUE, available |-> TRUE, current_assignments |-> 0]]
  /\ incidents = <<>>
  /\ schedules = <<>>
  /\ notifications = EmptyBag
  /\ ap = [p \in AllAlertProcs |-> IdleAlert]
  /\ call = [p \in Procs |-> IdleCall]
  /\ sw = [p \in SweepProcs |-> IdleSweep]
  /\ env = [updates |-> 0, reports |-> 0, calls |-> 0, sweeps |-> 0,
            assignment |-> IdleAssignment, aging |-> NoAnalysis]

(***************************************************************************)
(* Inputs                                                                  *)
(***************************************************************************)
Locations == {"Block A", "Block B"}

Alert(location, category, days, confidence, r2) ==
  [ location |-> location, category |-> category, days_to_next_failure |-> days,
    confidence |-> confidence, model_r2 |-> r2 ]

\* water alerts that pass the quality gate, and one that does not
AlertInputs ==
  { Alert(l, "water", 5, 90, Undefined) : l \in Locations }
  \cup { Alert("Block A", "water", 25, 90, Undefined) }

\* alerts whose category selects the first technician
RateInputs ==
  { Alert(l, c, 5, 90, Undefined) : l \in Locations, c \in {"electricity", "garbage"} }

\* alerts around the thresholds of the quality gate
GateInputs ==
  { Alert("Block A", "water", d, c, r) :
      d \in {0, 19, 20, 21, 25},
      c \in {Undefined, 0, 79, 80, 81, 100},
      r \in {Undefined, 69, 70, 71} }

PatchStatuses == {NotGiven, "in-progress", "resolved"}
PatchAssignees == {Undefined, Null} \cup Techs

\* the steps of one autoAssignTechnician activation
AutoAssignStep(p) ==
  \/ FindAvailableTechnicians(p)
  \/ CheckOverlapOfCandidate(p)
  \/ CreateScheduleCheckOverlap(p)
  \/ CreateScheduleCheckTechnician(p)
  \/ CreateScheduleInsert(p)
  \/ CreateScheduleIncrement(p)
  \/ CreateScheduleNotify(p)

\* the steps of one submitAlert request after its arrival
AlertStep(p) ==
  \/ AlertCheckCooldown(p)
  \/ AlertCheckExisting(p)
  \/ AlertFindTechnician(p)
  \/ AlertCheckTechnicianRate(p)
  \/ AlertCheckSystemRate(p)
  \/ AlertCreateIncident(p)
  \/ AlertReadCurrent(p)
  \/ AlertComputeDeadline(p)
  \/ AlertReadStartedAt(p)
  \/ AlertCallAutoAssign(p)
  \/ AlertUpdateIncident(p)
  \/ AlertNotifyAndReturn(p)

\* the steps of one sweep after its start
SweepStep(p) ==
  \/ SweepReadInProgress(p)
  \/ SweepFindCurrent(p)
  \/ SweepEscalate(p)
  \/ SweepNotifyUser(p)
  \/ SweepNotifyAdmin(p)

\* requests are interchangeable: they are numbered in the order they arrive
ArrivesInOrder(p) == \A q \in 1..(p - 1) : ap[q].pc # "idle"
\* a request that arrives while no other request is in flight
ArrivesAlone(p) == \A q \in AllAlertProcs \ {p} : ap[q].pc \in {"idle", "done"}
\* requests take minutes, not hours: the clock advances by hours only
\* between requests
NoRequestInFlight == \A q \in AllAlertProcs : ap[q].pc \in {"idle", "done"}
SweepArrivesInOrder(p) == \A q \in SweepProcs : q < p => sw[q].pc # "idle"

(***************************************************************************)
(* Specifications                                                          *)
(***************************************************************************)
\* concurrent submitAlert requests while the clock runs
NextAlerts ==
  \/ \E p \in AlertProcs : \E alert \in AlertInputs : ArrivesInOrder(p) /\ SubmitAlert(p, alert)
  \/ \E p \in AlertProcs : AlertStep(p)
  \/ \E p \in AlertProcs : AutoAssignStep(p)
  \/ ticks < MaxTicks /\ \E d \in {1, Minutes(1)} : Tick(d)

SpecAlerts == Init /\ [][NextAlerts]_vars

\* one more concurrent request than a technician has capacity
NextCapacity ==
  \/ \E p \in AllAlertProcs : \E alert \in AlertInputs : ArrivesInOrder(p) /\ SubmitAlert(p, alert)
  \/ \E p \in AllAlertProcs : AlertStep(p)
  \/ \E p \in AllAlertProcs : AutoAssignStep(p)

SpecCapacity == Init /\ [][NextCapacity]_vars

\* submitAlert requests one after the other, with incident updates and
\* the clock in between
NextResubmit ==
  \/ \E p \in AlertProcs : \E alert \in AlertInputs :
       ArrivesInOrder(p) /\ ArrivesAlone(p) /\ SubmitAlert(p, alert)
  \/ \E p \in AlertProcs : AlertStep(p)
  \/ \E p \in AlertProcs : AutoAssignStep(p)
  \/ \E id \in 1..Len(incidents) : \E status \in PatchStatuses : \E assignedTo \in PatchAssignees :
       PatchIncident(id, status, assignedTo)
  \/ ticks < MaxSeqTicks /\ Tick(Minutes(1))
  \/ ticks < MaxSeqTicks /\ NoRequestInFlight /\ Tick(Hours(COOLDOWN_PERIOD_HOURS))

SpecResubmit == Init /\ [][NextResubmit]_vars

\* one caller submits alerts one after the other while incidents are
\* updated through PATCH /api/incidents/[id]
NextReject ==
  \/ \E alert \in AlertInputs : SubmitAlert(1, alert)
  \/ AlertStep(1)
  \/ AutoAssignStep(1)
  \/ AlertRestart(1)
  \/ \E id \in 1..Len(incidents) : \E status \in PatchStatuses : \E assignedTo \in {Undefined, Null} :
       PatchIncident(id, status, assignedTo)
  \/ ticks < MaxTicks /\ NoRequestInFlight /\ Tick(Minutes(1))

SpecReject == Init /\ [][NextReject]_vars

\* alerts for the same technician from three locations, all asking for the
\* slot that starts SCHEDULE_OFFSET_MINUTES from now
SlotInputs ==
  { Alert(l, "water", 5, 90, Undefined) : l \in Locations \cup {"Block C"} }

\* one caller submits them one after the other while incidents are updated
\* through PATCH /api/incidents/[id]
NextSlot ==
  \/ \E alert \in SlotInputs : SubmitAlert(1, alert)
  \/ AlertStep(1)
  \/ AutoAssignStep(1)
  \/ AlertRestart(1)
  \/ \E id \in 1..Len(incidents) : \E status \in {"in-progress", "resolved"} :
       PatchIncident(id, status, Undefined)

SpecSlot == Init /\ [][NextSlot]_vars

\* one caller submits alerts one after the other, then the escalation sweep
\* runs, while writes to the notifications collection may fail
NextSink ==
  \/ \E alert \in SlotInputs : SubmitAlert(1, alert)
  \/ AlertStep(1) \/ AlertNotifyFails(1)
  \/ AutoAssignStep(1) \/ CreateScheduleNotifyFails(1)
  \/ AlertRestart(1)
  \/ \E p \in {NumAlertProcs + 2} :
       \/ NoRequestInFlight /\ SweepReadNew(p)
       \/ SweepStep(p)
       \/ SweepNotifyUserFails(p)
       \/ SweepNotifyAdminFails(p)
  \/ /\ ticks < MaxTicks
     /\ NoRequestInFlight
     /\ sw[NumAlertProcs + 2].pc = "idle"
     /\ Tick(Minutes(SLA_MINUTES + 1))

SpecSink == Init /\ [][NextSink]_vars

\* the escalation sweep over reported incidents while reads of the store
\* may fail
NextStore ==
  \/ \E p \in {NumAlertProcs + 2} :
       \/ SweepReadNew(p) \/ SweepReadNewFails(p)
       \/ SweepStep(p)
       \/ SweepReadInProgressFails(p) \/ SweepFindCurrentFails(p)
       \/ SweepRestart(p)
  \/ \E l \in Locations : ReportIncident(l, "water", 4)
  \/ \E id \in 1..Len(incidents) : PatchIncident(id, "in-progress", Undefined)
  \/ ticks < MaxSeqTicks /\ Tick(Minutes(SLA_MINUTES + 1))

SpecStore == Init /\ [][NextStore]_vars

\* the seeded technicians, any of them deactivated
InitStaffing ==
  /\ now = 0
  /\ ticks = 0
  /\ \E active \in [Techs -> BOOLEAN] :
       technicians = [id \in Techs |->
         [specialization |-> defaultTechnicians[id].specialization,
          active |-> active[id], available |-> TRUE, current_assignments |-> 0]]
  /\ incidents = <<>>
  /\ schedules = <<>>
  /\ notifications = EmptyBag
  /\ ap = [p \in AllAlertProcs |-> IdleAlert]
  /\ call = [p \in Procs |-> IdleCall]
  /\ sw = [p \in SweepProcs |-> IdleSweep]
  /\ env = [updates |-> 0, reports |-> 0, calls |-> 0, sweeps |-> 0,
            assignment |-> IdleAssignment, aging |-> NoAnalysis]

\* processCriticalAlerts over a batch: the alerts are submitted one after the
\* other, each ending with a result, with null or with an exception
NextBatch ==
  \/ \E p \in AlertProcs : \E alert \in AlertInputs :
       ArrivesInOrder(p) /\ ArrivesAlone(p) /\ SubmitAlert(p, alert)
  \/ \E p \in AlertProcs : AlertStep(p) \/ AlertCreateIncidentFails(p)
  \/ \E p \in AlertProcs : AutoAssignStep(p)

SpecBatch == InitStaffing /\ [][NextBatch]_vars

\* one caller submits alerts while incidents are reported and assigned by
\* hand; the clock advances by days only while no incident is assigned, and by
\* at most MaxSeqTicks hours afterwards, so that in every state an incident
\* with a technician was given that technician less than
\* COOLDOWN_PERIOD_HOURS ago
NextCooldown ==
  \/ \E alert \in SlotInputs : SubmitAlert(1, alert)
  \/ AlertStep(1)
  \/ AutoAssignStep(1)
  \/ AlertRestart(1)
  \/ \E l \in Locations : ReportIncident(l, "water", 4)
  \/ \E id \in 1..Len(incidents) : \E status \in {NotGiven, "in-progress"} :
       \E assignedTo \in Techs : PatchIncident(id, status, assignedTo)
  \/ /\ ticks < MaxSeqTicks
     /\ NoRequestInFlight
     /\ \/ Tick(Hours(1))
        \/ /\ \A i \in 1..Len(incidents) : incidents[i].assigned_to = Null
           /\ Tick(Hours(DEDUPLICATION_WINDOW_HOURS + 2))

SpecCooldown == Init /\ [][NextCooldown]_vars

\* alerts of one location in two categories, and of another location
DedupInputs ==
  { Alert("Block A", c, 5, 90, Undefined) : c \in {"water", "electricity"} }
  \cup { Alert("Block B", "water", 5, 90, Undefined) }

\* an incident of Block A / water as a report or an accepted alert and later
\* updates may have left it
StoredIncident(alertTitle, status, assignedTo, createdAt) ==
  [ NewIncident(IF alertTitle THEN incidentUserKind ELSE "user", 1, "Block A", "water",
                IF alertTitle THEN detectPriorityOfAlert ELSE 4, alertTitle)
      EXCEPT !.status = status,
             !.assigned_to = assignedTo,
             !.created_at = createdAt,
             !.resolved_at = IF status = "resolved" THEN createdAt ELSE NoTime,
             !.sla_started_at = IF alertTitle THEN createdAt ELSE NoTime,
             !.sla_deadline = IF alertTitle THEN createdAt + Minutes(SLA_MINUTES) ELSE NoTime ]

\* the store 49 hours after its first incident: one incident of Block A /
\* water of any origin, status, assignment and age around the two windows,
\* with or without an open incident of Block B
InitDedup ==
  /\ now = Hours(DEDUPLICATION_WINDOW_HOURS + 1)
  /\ ticks = 0
  /\ technicians = [id \in Techs |->
       [specialization |-> defaultTechnicians[id].specialization,
        active |-> TRUE, available |-> TRUE, current_assignments |-> 0]]
  /\ \E alertTitle \in BOOLEAN : \E status \in {"new", "in-progress", "pending", "resolved"} :
       \E assignedTo \in {Null, 1} :
         \E createdAt \in {0, Hours(1), Hours(2), Hours(DEDUPLICATION_WINDOW_HOURS)} :
           \E others \in {<<>>, <<[StoredIncident(TRUE, "in-progress", 1, Hours(2))
                                     EXCEPT !.location = "Block B"]>>} :
             incidents = <<StoredIncident(alertTitle, status, assignedTo, createdAt)>> \o others
  /\ schedules = <<>>
  /\ notifications = EmptyBag
  /\ ap = [p \in AllAlertProcs |-> IdleAlert]
  /\ call = [p \in Procs |-> IdleCall]
  /\ sw = [p \in SweepProcs |-> IdleSweep]
  /\ env = [updates |-> 0, reports |-> 0, calls |-> 0, sweeps |-> 0,
            assignment |-> IdleAssignment, aging |-> NoAnalysis]

\* one submitAlert request
NextDedup ==
  \/ \E alert \in DedupInputs : SubmitAlert(1, alert)
  \/ AlertStep(1)
  \/ AutoAssignStep(1)

SpecDedup == InitDedup /\ [][NextDedup]_vars

\* the quality gate on alerts around its thresholds
NextGate ==
  \/ \E alert \in GateInputs : SubmitAlert(1, alert)
  \/ AlertRestart(1)

SpecGate == Init /\ [][NextGate]_vars

\* the day's earlier alert incidents: accepted, completed and unassigned
\* again before the caller under study submits
EarlierIncident ==
  [ NewIncident("admin", 1, "Block C", "water", detectPriorityOfAlert, TRUE)
      EXCEPT !.status = "resolved", !.resolved_at = 0, !.created_at = 0 ]

InitRate ==
  /\ now = 0
  /\ ticks = 0
  /\ technicians = [id \in Techs |->
       [specialization |-> defaultTechnicians[id].specialization,
        active |-> TRUE, available |-> TRUE, current_assignments |-> 0]]
  /\ \E n \in {0, PreExisting} : incidents = [i \in 1..n |-> EarlierIncident]
  /\ schedules = <<>>
  /\ notifications = EmptyBag
  /\ ap = [p \in AllAlertProcs |-> IdleAlert]
  /\ call = [p \in Procs |-> IdleCall]
  /\ sw = [p \in SweepProcs |-> IdleSweep]
  /\ env = [updates |-> 0, reports |-> 0, calls |-> 0, sweeps |-> 0,
            assignment |-> IdleAssignment, aging |-> NoAnalysis]

\* processCriticalAlerts: one caller submits alerts one after the other
NextRate ==
  \/ \E alert \in RateInputs : SubmitAlert(1, alert)
  \/ AlertStep(1)
  \/ AutoAssignStep(1)
  \/ AlertRestart(1)
  \/ ticks < MaxSeqTicks /\ NoRequestInFlight /\ \E d \in {Minutes(1), Day} : Tick(d)

SpecRate == InitRate /\ [][NextRate]_vars

\* the escalation sweep run again and again, among reports, alerts and updates
NextEscalation ==
  \/ \E p \in {NumAlertProcs + 2} : SweepReadNew(p) \/ SweepStep(p) \/ SweepRestart(p)
  \/ \E l \in Locations : ReportIncident(l, "water", 4)
  \/ \E id \in 1..Len(incidents) : \E status \in PatchStatuses : \E assignedTo \in {Undefined, 1} :
       PatchIncident(id, status, assignedTo)
  \/ ticks < MaxSeqTicks /\ Tick(Minutes(SLA_MINUTES + 1))

SpecEscalation == Init /\ [][NextEscalation]_vars

\* two escalation sweeps at once
NextSweeps ==
  \/ \E p \in SweepProcs : SweepArrivesInOrder(p) /\ SweepReadNew(p)
  \/ \E p \in SweepProcs : SweepStep(p)
  \/ \E l \in Locations : ReportIncident(l, "water", 4)
  \/ ticks < MaxTicks /\ \E d \in {Minutes(SLA_MINUTES + 1)} : Tick(d)

SpecSweeps == Init /\ [][NextSweeps]_vars

\* one sweep at a time over reported incidents of every age around the SLA
NextSweepOnce ==
  \/ \E p \in {NumAlertProcs + 2} : SweepReadNew(p) \/ SweepStep(p) \/ SweepRestart(p)
  \/ \E l \in Locations : ReportIncident(l, "water", 4)
  \/ /\ ticks < MaxSeqTicks
     /\ \E d \in {Minutes(SLA_MINUTES), Minutes(SLA_MINUTES) + UnitsPerMinute \div 2,
                   Minutes(SLA_MINUTES + 1)} : Tick(d)

SpecSweepOnce == Init /\ [][NextSweepOnce]_vars

\* a users collection as its administration may have left it: any of the
\* seeded specializations, any flags, any load
InitDirectory ==
  /\ now = 0
  /\ ticks = 0
  /\ technicians \in [Techs ->
       [specialization : {"General", "HVAC", "Plumbing"},
        active : BOOLEAN, available : BOOLEAN,
        current_assignments : {0, DEFAULT_MAX_CONCURRENT}]]
  /\ incidents = <<>>
  /\ schedules = <<>>
  /\ notifications = EmptyBag
  /\ ap = [p \in AllAlertProcs |-> IdleAlert]
  /\ call = [p \in Procs |-> IdleCall]
  /\ sw = [p \in SweepProcs |-> IdleSweep]
  /\ env = [updates |-> 0, reports |-> 0, calls |-> 0, sweeps |-> 0,
            assignment |-> IdleAssignment, aging |-> NoAnalysis]

\* alerts of a category with two tags, with one tag, and with a tag that no
\* technician of InitDirectory has
SelectInputs == { Alert("Block A", c, 5, 90, Undefined) : c \in {"hostel", "water", "it"} }

\* one alert on an empty incident store, up to the selection of a technician
NextSelect ==
  \/ \E alert \in SelectInputs : SubmitAlert(1, alert)
  \/ AlertCheckCooldown(1)
  \/ AlertCheckExisting(1)
  \/ AlertFindTechnician(1)

SpecSelect == InitDirectory /\ [][NextSelect]_vars

\* a store as earlier assignments and the administration of the users
\* collection may have left it: accepted alert incidents (up to one more than
\* a technician can hold), each with its schedule in a slot of its own,
\* counters that count them, any flags
InitReschedule ==
  /\ now = 0
  /\ ticks = 0
  /\ \E n \in 1..(DEFAULT_MAX_CONCURRENT + 1) : \E owner \in [1..n -> Techs] :
       \E flags \in [Techs -> [active : BOOLEAN, available : BOOLEAN]] :
         /\ technicians = [id \in Techs |->
              [specialization |-> defaultTechnicians[id].specialization,
               active |-> flags[id].active,
               available |-> flags[id].available,
               current_assignments |-> Cardinality({ k \in 1..n : owner[k] = id })]]
         /\ incidents = [k \in 1..n |->
              [ NewIncident(incidentUserKind, incidentUserId(owner[k]), "Block A", "water",
                            detectPriorityOfAlert, TRUE)
                  EXCEPT !.status = "in-progress",
                         !.assigned_to = owner[k],
                         !.sla_started_at = 0,
                         !.sla_deadline = Minutes(SLA_MINUTES) ]]
         /\ schedules = [k \in 1..n |->
              [ technician_id |-> owner[k],
                incident_id |-> k,
                scheduled_time |-> Minutes(SCHEDULE_OFFSET_MINUTES)
                                     + (k - 1) * Minutes(DEFAULT_DURATION_MINUTES),
                duration_minutes |-> DEFAULT_DURATION_MINUTES,
                status |-> "scheduled" ]]
  /\ notifications = EmptyBag
  /\ ap = [p \in AllAlertProcs |-> IdleAlert]
  /\ call = [p \in Procs |-> IdleCall]
  /\ sw = [p \in SweepProcs |-> IdleSweep]
  /\ env = [updates |-> 0, reports |-> 0, calls |-> 0, sweeps |-> 0,
            assignment |-> IdleAssignment, aging |-> NoAnalysis]

\* the steps of autoRescheduleUnavailableTechnicians after checkAndEscalateSLA
RescheduleStep(p) ==
  \/ RescheduleReadSchedules(p)
  \/ RescheduleFindTechnician(p)
  \/ RescheduleGetIncident(p)
  \/ RescheduleCancelOld(p)
  \/ RescheduleNotifyNew(p)

\* POST /api/escalation/check, one request at a time, time passing between
\* the requests
NextReschedule ==
  \/ \E p \in {NumAlertProcs + 2} : SweepReadNew(p) \/ SweepStep(p)
  \/ \E p \in {NumAlertProcs + 2} : RescheduleStep(p) \/ AutoAssignStep(p) \/ RescheduleRestart(p)
  \/ /\ ticks < MaxSeqTicks
     /\ sw[NumAlertProcs + 2].pc = "idle"
     /\ \E d \in {Minutes(1), Minutes(2 * SCHEDULE_OFFSET_MINUTES)} : Tick(d)

SpecReschedule == InitReschedule /\ [][NextReschedule]_vars

(***************************************************************************)
(* Properties                                                              *)
(***************************************************************************)
\* C1: in every reachable state every technician has
\* 0 <= current_assignments <= max_concurrent, also while several submitAlert
\* requests interleave their capacity read with their increment.
CapacityInvariant ==
  \A id \in Techs :
    /\ 0 <= Technician(id).current_assignments
    /\ Technician(id).current_assignments <= Technician(id).max_concurrent

\* the half-open intervals of two schedules intersect
IntervalsIntersect(a, b) ==
  /\ a.scheduled_time < b.scheduled_time + Minutes(b.duration_minutes)
  /\ b.scheduled_time < a.scheduled_time + Minutes(a.duration_minutes)

\* C2: in every reachable state no technician has two schedules with status
\* scheduled or in-progress whose [scheduled_time, scheduled_time + duration)
\* intervals overlap.
NoDoubleBooking ==
  \A j, k \in 1..Len(schedules) :
    ( /\ j < k
      /\ schedules[j].technician_id = schedules[k].technician_id
      /\ schedules[j].status \in ActiveStatus
      /\ schedules[k].status \in ActiveStatus )
    => ~IntervalsIntersect(schedules[j], schedules[k])

SamePair(p, q) ==
  /\ ap[p].alert.location = ap[q].alert.location
  /\ ap[p].alert.category = ap[q].alert.category

\* C3: when a submitAlert for a (location, category) pair returned a result,
\* every later submitAlert for the same pair that starts after the first has
\* finished and runs within 24 hours of it returns null and creates no
\* incident, whatever happened to the first incident in between.
CooldownIdempotence ==
  \A p, q \in AllAlertProcs :
    ( /\ p \in ap[q].preds
      /\ ap[p].result.returned = "value"
      /\ SamePair(p, q)
      /\ ap[q].started <= ap[p].finished + Hours(COOLDOWN_PERIOD_HOURS)
      /\ now <= ap[p].finished + Hours(COOLDOWN_PERIOD_HOURS) )
    => /\ ap[q].incident = Null
       /\ ap[q].pc = "done" => ap[q].result.returned = "null"

\* C4: of two submitAlert requests for the same (location, category) that run
\* concurrently, at most one creates an incident.
AtMostOneCreates ==
  \A p, q \in AllAlertProcs :
    ( /\ p # q
      /\ ap[p].pc # "idle" /\ ap[q].pc # "idle"
      /\ p \notin ap[q].preds /\ q \notin ap[p].preds
      /\ SamePair(p, q) )
    => ~(ap[p].incident # Null /\ ap[q].incident # Null)

\* C5: once an incident has escalated = true, every later step leaves
\* escalated true and escalated_at as it was first written.
EscalationFinality ==
  [][ \A i \in 1..Len(incidents) :
        incidents[i].escalated =>
          /\ incidents'[i].escalated
          /\ incidents'[i].escalated_at = incidents[i].escalated_at ]_vars

\* a second run of the sweep, begun after an overdue incident was escalated,
\* has visited that incident and returned
SweepRevisitsEscalated ==
  \E p \in SweepProcs : \E k \in 1..Len(sw[p].incidents) :
    /\ sw[p].pc = "done"
    /\ env.sweeps >= 1
    /\ incidents[sw[p].incidents[k]].escalated
    /\ incidents[sw[p].incidents[k]].escalated_at < sw[p].now
    /\ ageMinutes(sw[p].incidents[k], sw[p].now) > SLA_MINUTES

\* C6: when two sweeps run concurrently, each escalation notification of an
\* incident (the one to its reporter, the one to each administrator) is
\* emitted at most once.
EscalatedOnce ==
  \A n \in BagToSet(notifications) :
    n.type \in {"sla_exceeded", "escalation"} => CopiesIn(n, notifications) <= 1

\* C7: an alert passes the quality gate exactly when (confidence is absent
\* or >= 80) and daysToFailure <= 20 and (modelR2 is absent or >= 0.7); a
\* present confidence below 80 and a daysToFailure above 20 are each rejected
\* whatever the other fields.
GateExact ==
  \A p \in AllAlertProcs :
    ap[p].pc # "idle" =>
      LET alert == ap[p].alert
          passed == ap[p].pc # "done"
      IN /\ passed <=>
              /\ (alert.confidence = Undefined \/ alert.confidence >= 80)
              /\ alert.days_to_next_failure <= 20
              /\ (alert.model_r2 = Undefined \/ alert.model_r2 >= 70)
         /\ (alert.confidence # Undefined /\ alert.confidence < 80) => ~passed
         /\ alert.days_to_next_failure > 20 => ~passed

\* an alert with confidence = 80 and daysToFailure = 20 has passed the gate
GateBoundaryPasses ==
  \E p \in AllAlertProcs :
    /\ ap[p].pc = "cooldown"
    /\ ap[p].alert.confidence = 80
    /\ ap[p].alert.days_to_next_failure = 20

\* C8: for every accepted alert the sla_deadline written to the incident
\* equals the returned slaDeadline and equals the stored sla_started_at plus
\* exactly SLA_MINUTES minutes.
SlaArithmetic ==
  \A p \in AllAlertProcs :
    (ap[p].pc = "done" /\ ap[p].result.returned = "value") =>
      /\ incidents[ap[p].result.incidentId].sla_deadline = ap[p].result.slaDeadline
      /\ incidents[ap[p].result.incidentId].sla_deadline =
           incidents[ap[p].result.incidentId].sla_started_at + Minutes(SLA_MINUTES)

\* C9: whenever submitAlert returns a result, the call has created a
\* schedule for the returned technician, whose current_assignments it
\* increased by one.
CapacityWriteReported ==
  \A p \in AllAlertProcs :
    (ap[p].pc = "done" /\ ap[p].result.returned = "value") =>
      /\ ap[p].schedule # Null
      /\ schedules[ap[p].schedule].technician_id = ap[p].result.technicianId

\* the alert incidents created on the day of incident i
AlertIncidentsOfDay(i) ==
  { j \in 1..Len(incidents) :
      /\ incidents[j].alert_title
      /\ incidents[j].created_at \div Day = incidents[i].created_at \div Day }

\* C10: after any sequence of submitAlert calls made one after the other, no
\* day has more than 15 alert incidents, nor more than 3 of them assigned to
\* one technician.
DailyCapsHold ==
  \A i \in 1..Len(incidents) :
    /\ Cardinality(AlertIncidentsOfDay(i)) <= MAX_SYSTEM_WIDE_ASSIGNMENTS_PER_DAY
    /\ \A id \in Techs :
         Cardinality({ j \in AlertIncidentsOfDay(i) : incidents[j].assigned_to = id })
           <= MAX_ASSIGNMENTS_PER_TECHNICIAN_PER_DAY

\* a call whose technician had room was denied because the technician
\* already has 3 alert incidents today
DeniedAtTechnicianCap ==
  /\ ap[1].pc = "done"
  /\ ap[1].result.returned = "null"
  /\ ap[1].technician # Null
  /\ ap[1].incident = Null
  /\ technicianAssignmentsToday(ap[1].technician) = MAX_ASSIGNMENTS_PER_TECHNICIAN_PER_DAY
  /\ Technician(ap[1].technician).current_assignments
       < Technician(ap[1].technician).max_concurrent

\* a call was denied because 15 alert incidents were created today
DeniedAtSystemCap ==
  /\ ap[1].pc = "done"
  /\ ap[1].result.returned = "null"
  /\ ap[1].technician # Null
  /\ technicianAssignmentsToday(ap[1].technician) < MAX_ASSIGNMENTS_PER_TECHNICIAN_PER_DAY
  /\ systemAssignmentsToday = MAX_SYSTEM_WIDE_ASSIGNMENTS_PER_DAY

\* technician id may be selected: active, available and under capacity
Selectable(id) ==
  /\ technicians[id].active
  /\ technicians[id].available
  /\ technicians[id].current_assignments < defaultTechnicians[id].max_concurrent

\* the selectable technicians whose specialization is the tag
SelectableWithTag(tag) == { id \in Techs : Selectable(id) /\ technicians[id].specialization = tag }

\* the technician that selection has to return for the category, Null if none
ExpectedTechnician(category) ==
  LET tags == CATEGORY_TO_SPECIALIZATION(category)
      hits == { k \in 1..Len(tags) : SelectableWithTag(tags[k]) # {} }
      any == { id \in Techs : Selectable(id) }
      Min(S) == CHOOSE x \in S : \A y \in S : x <= y
  IN IF hits # {} THEN Min(SelectableWithTag(tags[Min(hits)]))
     ELSE IF any # {} THEN Min(any)
     ELSE Null

\* C11: selection returns, for the category's tags in table order, the first
\* technician in directory order that is active, available, under capacity
\* and has that specialization; failing that the first technician that is
\* active, available and under capacity; and null if there is none.  A
\* technician that is inactive, unavailable or at capacity is never returned.
SelectionExact ==
  \A p \in AllAlertProcs :
    /\ ap[p].pc = "rateTech" =>
         /\ ap[p].technician = ExpectedTechnician(ap[p].alert.category)
         /\ Selectable(ap[p].technician)
    /\ (ap[p].pc = "done" /\ ap[p].preds = {} /\ passesQualityGates(ap[p].alert)) =>
         /\ ap[p].technician = Null
         /\ ExpectedTechnician(ap[p].alert.category) = Null

\* a water alert whose Plumbing technician is first in the directory but at
\* capacity: the selection fell through to the second technician
SkipsTechnicianAtCapacity ==
  /\ ap[1].pc = "rateTech"
  /\ ap[1].alert.category = "water"
  /\ technicians[1].specialization = "Plumbing"
  /\ technicians[1].active /\ technicians[1].available
  /\ technicians[1].current_assignments = defaultTechnicians[1].max_concurrent
  /\ ap[1].technician = 2

\* the escalation notifications stored for incident i: one for its reporter
\* and one for each administrator, and no other
NotifiedOfEscalation(i) ==
  /\ CopiesIn(Notification(incidents[i].user_kind, incidents[i].user_id, "sla_exceeded", i),
              notifications) = 1
  /\ \A a \in Admins : CopiesIn(Notification("admin", a, "escalation", i), notifications) = 1

\* C12: when a run of the sweep has returned, every incident that was new
\* or in-progress, not escalated and older than 15 minutes when the run read
\* the clock (ages between 15 and 16 minutes included) is escalated, stamped
\* and notified once to its reporter and once to each administrator; no
\* younger incident is escalated.
SweepEscalatesExactly ==
  \A p \in SweepProcs :
    sw[p].pc = "done" =>
      \A i \in 1..Len(incidents) :
        /\ ( /\ incidents[i].status \in {"new", "in-progress"}
             /\ sw[p].now - incidents[i].created_at > Minutes(SLA_MINUTES) )
           => ( /\ incidents[i].escalated
                /\ incidents[i].escalated_at >= sw[p].now - Minutes(SLA_MINUTES)
                /\ NotifiedOfEscalation(i) )
        /\ incidents[i].escalated =>
             incidents[i].escalated_at - incidents[i].created_at > Minutes(SLA_MINUTES)

\* the schedule of index k is held by a technician who is unavailable or inactive
HeldByUnavailable(k) ==
  LET technician == technicians[schedules[k].technician_id]
  IN ~technician.available \/ ~technician.active

\* schedule j replaces schedule k: a later schedule for the same incident at
\* the same time on a technician who is active, available and within capacity
Replaces(j, k) ==
  /\ j > k
  /\ schedules[j].incident_id = schedules[k].incident_id
  /\ schedules[j].scheduled_time = schedules[k].scheduled_time
  /\ LET technician == Technician(schedules[j].technician_id)
     IN /\ technician.active
        /\ technician.available
        /\ technician.current_assignments <= technician.max_concurrent

\* nothing was stored for the incident of schedule k besides schedule k
LeftAlone(k) ==
  /\ schedules[k].status = "scheduled"
  /\ \A j \in 1..Len(schedules) : j # k => schedules[j].incident_id # schedules[k].incident_id
  /\ \A n \in BagToSet(notifications) :
       ~(n.type = "technician_assigned" /\ n.incident_id = schedules[k].incident_id)

RescheduleOutcome ==
  \A p \in {NumAlertProcs + 2} :
    sw[p].pc = "rescheduled" =>
      \A n \in 1..Len(sw[p].scheduledAssignments) :
        LET k == sw[p].scheduledAssignments[n]
        IN HeldByUnavailable(k) =>
             \/ /\ schedules[k].status = "cancelled"
                /\ \E j \in 1..Len(schedules) : Replaces(j, k)
             \/ LeftAlone(k)

RescheduleFrame ==
  /\ \A k \in 1..Len(schedules) :
       (schedules[k].status = "cancelled" \/ ~HeldByUnavailable(k)) =>
         schedules'[k] = schedules[k]
  /\ (technicians' # technicians \/ schedules' # schedules) =>
       call[NumAlertProcs + 2].best # Null

\* C13: after a run of the reschedule sweep every future-dated scheduled
\* assignment of an unavailable or inactive technician is either cancelled and
\* replaced by a schedule for the same incident at the same time on an active,
\* available technician within capacity, or left as it was with nothing stored
\* for its incident; no step modifies a cancelled schedule or the schedule of
\* an active and available technician, and the store only changes while a
\* replacement technician has been found
RescheduleReplacesOrLeaves == []RescheduleOutcome /\ [][RescheduleFrame]_vars

\* a run has replaced one stale schedule and left another, and a schedule of
\* an active and available technician was in its list
RescheduleBothOutcomes ==
  \E p \in {NumAlertProcs + 2} :
    /\ sw[p].pc = "rescheduled"
    /\ \E a, b, c \in 1..Len(sw[p].scheduledAssignments) :
         LET ka == sw[p].scheduledAssignments[a]
             kb == sw[p].scheduledAssignments[b]
             kc == sw[p].scheduledAssignments[c]
         IN /\ HeldByUnavailable(ka) /\ schedules[ka].status = "cancelled"
            /\ \E j \in 1..Len(schedules) : Replaces(j, ka)
            /\ HeldByUnavailable(kb) /\ LeftAlone(kb)
            /\ ~HeldByUnavailable(kc) /\ schedules[kc].status = "scheduled"

\* C14: every step a submitAlert request takes up to and including its quality
\* gate, its cooldown check and its deduplication check leaves incidents,
\* schedules, technicians and notifications as they were, and when such a step
\* ends the request it ends it with the null result
RejectionLeavesStore ==
  [][ \A p \in AllAlertProcs :
        (ap[p].pc \in {"idle", "cooldown", "dedup"} /\ ap'[p] # ap[p]) =>
          /\ UNCHANGED <<incidents, schedules, technicians, notifications>>
          /\ ap'[p].pc = "done" => ap'[p].result = NullResult ]_vars

\* a request whose alert passed the quality gate was refused by the
\* deduplication check: it returned null before a technician was looked up,
\* while the only stored incident of its location and category is unassigned
RejectedAsDuplicate ==
  \E p \in AllAlertProcs :
    /\ ap[p].pc = "done"
    /\ ap[p].result = NullResult
    /\ passesQualityGates(ap[p].alert)
    /\ Len(incidents) = 1
    /\ incidents[1].location = ap[p].alert.location
    /\ incidents[1].category = ap[p].alert.category
    /\ incidents[1].assigned_to = Null

\* the request of process p was denied by checkRateLimits: it returned null
\* after a technician had been selected
DeniedByRateLimit(p) ==
  /\ ap[p].pc = "done"
  /\ ap[p].result = NullResult
  /\ ap[p].technician # Null

\* C15: whenever checkRateLimits has denied a request that passed the quality,
\* cooldown and deduplication gates, the store holds an incident created by
\* that request for its alert, unassigned and without a schedule
DeniedIncidentPersists ==
  \A p \in AllAlertProcs :
    DeniedByRateLimit(p) =>
      \E i \in 1..Len(incidents) :
        /\ incidents[i].alert_title
        /\ incidents[i].location = ap[p].alert.location
        /\ incidents[i].category = ap[p].alert.category
        /\ incidents[i].created_at >= ap[p].started
        /\ incidents[i].assigned_to = Null
        /\ \A k \in 1..Len(schedules) : schedules[k].incident_id # i

\* the incident of request p as the update at the end of the request writes
\* it, with a status among statuses
WrittenAsAssigned(p, statuses) ==
  LET written == incidents'[ap[p].incident]
  IN /\ written.assigned_to = ap[p].technician
     /\ written.sla_deadline = ap[p].slaDeadline
     /\ written.sla_deadline # NoTime
     /\ written.sla_started_at # NoTime
     /\ written.priority = 5
     /\ written.status \in statuses

\* the step in which request p, left without a schedule by
\* autoAssignTechnician, updates its incident
UpdatesWithoutSchedule(p) ==
  /\ ap[p].pc = "awaitAssign"
  /\ ap'[p].pc = "notify"
  /\ ap'[p].schedule = Null

\* a request that created an incident returns a result naming its technician
ReturnsResult ==
  \A p \in AllAlertProcs :
    (ap[p].pc = "done" /\ ap[p].incident # Null) =>
      /\ ap[p].result.returned = "value"
      /\ ap[p].result.incidentId = ap[p].incident
      /\ ap[p].result.technicianId = ap[p].technician

\* C16 as stated: when autoAssignTechnician throws or returns no schedule,
\* the incident is written with the selected technician, the SLA fields,
\* priority 5 and status in-progress, and the request returns a result
ScheduleFailureWritesInProgress ==
  /\ []ReturnsResult
  /\ [][ \A p \in AllAlertProcs :
           UpdatesWithoutSchedule(p) => WrittenAsAssigned(p, {"in-progress"}) ]_vars

\* C16 amended: when autoAssignTechnician throws or returns no schedule, the
\* incident is written with the selected technician, the SLA fields and
\* priority 5, and with status in-progress unless the request read it back as
\* resolved, in which case it stays resolved; the request returns a result
ScheduleFailureStillAssigns ==
  /\ []ReturnsResult
  /\ [][ \A p \in AllAlertProcs :
           UpdatesWithoutSchedule(p) =>
             WrittenAsAssigned(p, IF ap[p].cur.status = "resolved" THEN {"resolved"}
                                  ELSE {"in-progress"}) ]_vars

\* a request has returned a result although no technician was free at its
\* slot: its incident is assigned and in progress, and has no schedule
AssignedWithoutSchedule ==
  \E p \in AllAlertProcs :
    /\ ap[p].pc = "done"
    /\ ap[p].result.returned = "value"
    /\ ap[p].schedule = Null
    /\ incidents[ap[p].incident].assigned_to = ap[p].technician
    /\ incidents[ap[p].incident].status = "in-progress"
    /\ \A k \in 1..Len(schedules) : schedules[k].incident_id # ap[p].incident

\* the sweep of process p has ended, normally or with an error
SweepEnded(p) == sw[p].pc \in {"done", "threw"}

\* C17: a request that reached its notification has returned its result, and
\* a sweep that has ended has completed, with every incident of its run that
\* was overdue when it read the clock escalated
SinkFailureNeverAborts ==
  /\ \A p \in AllAlertProcs :
       (ap[p].pc = "done" /\ ap[p].incident # Null) => ap[p].result.returned = "value"
  /\ \A p \in SweepProcs :
       SweepEnded(p) =>
         /\ sw[p].pc = "done"
         /\ \A k \in 1..Len(sw[p].incidents) :
              ageMinutes(sw[p].incidents[k], sw[p].now) > SLA_MINUTES =>
                incidents[sw[p].incidents[k]].escalated

\* a sweep was ended by a failed notification write after it had marked an
\* incident escalated, and left another overdue incident of its run unescalated
SweepAbortedBySink ==
  \E p \in SweepProcs :
    /\ sw[p].pc = "threw"
    /\ \E j, k \in 1..Len(sw[p].incidents) :
         /\ incidents[sw[p].incidents[j]].escalated
         /\ ageMinutes(sw[p].incidents[k], sw[p].now) > SLA_MINUTES
         /\ ~incidents[sw[p].incidents[k]].escalated

\* C18: a sweep during which a store access failed ends with the error, never
\* with a count
StoreFailureEndsInError ==
  \A p \in SweepProcs :
    (sw[p].storeFailed /\ SweepEnded(p)) => sw[p].pc = "threw"

\* the alert of request p was refused by the quality gate
RefusedByQualityGate(p) ==
  /\ ap[p].pc = "done"
  /\ ap[p].result = NullResult
  /\ ~passesQualityGates(ap[p].alert)

\* request p found no technician: it returned null for an alert that passes
\* the quality gate while no incident is stored and no technician is eligible
FoundNoTechnician(p) ==
  /\ ap[p].pc = "done"
  /\ ap[p].result = NullResult
  /\ passesQualityGates(ap[p].alert)
  /\ incidents = <<>>
  /\ \A id \in Techs : ~Eligible(Technician(id))

\* the submission of request p threw
SubmissionThrew(p) == ap[p].pc = "done" /\ ap[p].result.returned = "threw"

\* C19: the entry recorded for an alert refused by a gate differs from the
\* entry recorded for an alert of the same location and category for which no
\* technician was found or whose submission threw, and a gate refusal is not
\* counted as a failure
RefusalEntriesDistinct ==
  \A p \in AlertProcs :
    RefusedByQualityGate(p) =>
      /\ \A q \in AlertProcs :
           ( /\ FoundNoTechnician(q) \/ SubmissionThrew(q)
             /\ ap[q].alert.location = ap[p].alert.location
             /\ ap[q].alert.category = ap[p].alert.category ) =>
             ResultEntry(ap[p].alert, ap[p].result) # ResultEntry(ap[q].alert, ap[q].result)
      /\ ~CountsAsFailed(ap[p].result)

\* one alert of a batch was refused by the quality gate, another of the same
\* location and category found no technician, and their entries are equal
RefusalEntryEqualsNoTechnician ==
  \E p, q \in AlertProcs :
    /\ RefusedByQualityGate(p)
    /\ FoundNoTechnician(q)
    /\ ResultEntry(ap[p].alert, ap[p].result) = ResultEntry(ap[q].alert, ap[q].result)

\* an incident of the location and category is assigned to a technician
AssignedIncidentFor(location, category) ==
  \E i \in 1..Len(incidents) :
    /\ incidents[i].location = location
    /\ incidents[i].category = category
    /\ incidents[i].assigned_to # Null

\* C20: where every assignment is less than 24 hours old, the cooldown check
\* of a request refuses the alert whenever some incident of its location and
\* category is assigned, whatever the creation time and status of that incident
CooldownByAssignmentTime ==
  [][ \A p \in AllAlertProcs :
        ( /\ ap[p].pc = "cooldown"
          /\ ap'[p] # ap[p]
          /\ AssignedIncidentFor(ap[p].alert.location, ap[p].alert.category) ) =>
          ap'[p].result = NullResult ]_vars

\* an open incident of the location and category was created within the
\* last DEDUPLICATION_WINDOW_HOURS
OpenIncidentFor(location, category) ==
  \E i \in 1..Len(incidents) :
    /\ incidents[i].location = location
    /\ incidents[i].category = category
    /\ incidents[i].status \in {"new", "in-progress", "pending"}
    /\ now - incidents[i].created_at <= Hours(DEDUPLICATION_WINDOW_HOURS)

\* an incident of the location and category is stored
SomeIncidentFor(location, category) ==
  \E i \in 1..Len(incidents) :
    incidents[i].location = location /\ incidents[i].category = category

\* C21: the deduplication check of a request refuses the alert, leaving the
\* incidents as they are, exactly when an open incident of its location and
\* category was created within the last 48 hours, reported or created from an
\* alert, assigned or not; and neither that check nor the cooldown check
\* refuses an alert while no incident of its location and category is stored
DedupExact ==
  [][ \A p \in AllAlertProcs :
        /\ (ap[p].pc = "dedup" /\ ap'[p] # ap[p]) =>
             /\ (ap'[p].pc = "done" /\ ap'[p].result = NullResult)
                  <=> OpenIncidentFor(ap[p].alert.location, ap[p].alert.category)
             /\ incidents' = incidents
        /\ (ap[p].pc \in {"cooldown", "dedup"} /\ ap'[p].pc = "done") =>
             SomeIncidentFor(ap[p].alert.location, ap[p].alert.category) ]_vars

\* a request was refused because of a reported, unassigned incident of its
\* location and category created exactly 48 hours earlier, while an incident of
\* another location is open as well
RefusedAtWindowEdge ==
  \E p \in AllAlertProcs :
    /\ ap[p].pc = "done"
    /\ ap[p].result = NullResult
    /\ ap[p].technician = Null
    /\ ap[p].finished = now
    /\ \E i \in 1..Len(incidents) :
         /\ incidents[i].location = ap[p].alert.location
         /\ incidents[i].category = ap[p].alert.category
         /\ ~incidents[i].alert_title
         /\ incidents[i].assigned_to = Null
         /\ incidents[i].status = "new"
         /\ now - incidents[i].created_at = Hours(DEDUPLICATION_WINDOW_HOURS)
    /\ \E j \in 1..Len(incidents) :
         /\ incidents[j].location # ap[p].alert.location
         /\ incidents[j].status = "in-progress"

\* the schedules of incident i with status scheduled or in-progress
ActiveSchedulesOf(i) ==
  { k \in 1..Len(schedules) :
      schedules[k].incident_id = i /\ schedules[k].status \in {"scheduled", "in-progress"} }

\* C22: in every state, the middle of a reschedule included, each incident has
\* at most one schedule with status scheduled or in-progress
OneActiveSchedulePerIncident ==
  \A i \in 1..Len(incidents) : Cardinality(ActiveSchedulesOf(i)) <= 1

\* C23: every schedule with status scheduled or in-progress is held by the
\* technician stored in its incident's assigned_to, and the schedule created
\* by a request that returned a result is held by the returned technicianId
ScheduleHeldByAssignee ==
  /\ \A k \in 1..Len(schedules) :
       schedules[k].status \in {"scheduled", "in-progress"} =>
         schedules[k].technician_id = incidents[schedules[k].incident_id].assigned_to
  /\ \A p \in AllAlertProcs :
       (ap[p].pc = "done" /\ ap[p].result.returned = "value" /\ ap[p].schedule # Null) =>
         schedules[ap[p].schedule].technician_id = ap[p].result.technicianId

(***************************************************************************)
(* The category table                                                      *)
(***************************************************************************)
\* a directory with Electrical, General and Plumbing technicians in any
\* order, with any flags, idle or at capacity
InitTable ==
  /\ now = 0
  /\ ticks = 0
  /\ technicians \in [Techs ->
       [specialization : {"Electrical", "General", "Plumbing"},
        active : BOOLEAN, available : BOOLEAN,
        current_assignments : {0, DEFAULT_MAX_CONCURRENT}]]
  /\ incidents = <<>>
  /\ schedules = <<>>
  /\ notifications = EmptyBag
  /\ ap = [p \in AllAlertProcs |-> IdleAlert]
  /\ call = [p \in Procs |-> IdleCall]
  /\ sw = [p \in SweepProcs |-> IdleSweep]
  /\ env = [updates |-> 0, reports |-> 0, calls |-> 0, sweeps |-> 0,
            assignment |-> IdleAssignment, aging |-> NoAnalysis]

\* the categories of the table that the directory of InitTable can serve,
\* and two that the table does not hold
TableCategories == {"electricity", "water", "garbage", "electrical", "road"}

TableInputs == { Alert("Block A", c, 5, 90, Undefined) : c \in TableCategories }

\* one alert on an empty incident store, up to the selection of a technician
NextTable ==
  \/ \E alert \in TableInputs : SubmitAlert(1, alert)
  \/ AlertCheckCooldown(1)
  \/ AlertCheckExisting(1)
  \/ AlertFindTechnician(1)

SpecTable == InitTable /\ [][NextTable]_vars

\* some technician of the directory is eligible and has the specialization
SomeEligible(specialization) ==
  \E id \in Techs :
    Eligible(Technician(id)) /\ Technician(id).specialization = specialization

\* the request p selected a technician for an alert of the category
SelectedFor(p, category) ==
  ap[p].pc = "rateTech" /\ ap[p].alert.category = category

\* C24 as stated: for an alert of category electrical, an eligible
\* technician with specialization Electrical is selected in preference to
\* eligible technicians of any other specialization.
ElectricalAlertPrefersElectrical ==
  \A p \in AllAlertProcs :
    (SelectedFor(p, "electrical") /\ SomeEligible("Electrical")) =>
      Technician(ap[p].technician).specialization = "Electrical"

\* C24, amended: the table maps electricity to Electrical, water to
\* Plumbing, it to IT, hostel to General then HVAC, garbage to General and
\* every other category, electrical included, to General; for an alert of
\* category electricity an eligible Electrical technician is selected in
\* preference to eligible technicians of any other specialization, and for
\* an alert of a category outside the table an eligible General one is.
CategoryTable ==
  /\ getSpecializationForCategory("electricity") = <<"Electrical">>
  /\ getSpecializationForCategory("water") = <<"Plumbing">>
  /\ getSpecializationForCategory("it") = <<"IT">>
  /\ getSpecializationForCategory("hostel") = <<"General", "HVAC">>
  /\ getSpecializationForCategory("garbage") = <<"General">>
  /\ \A c \in {"electrical", "road"} : getSpecializationForCategory(c) = <<"General">>
  /\ \A p \in AllAlertProcs :
       /\ (SelectedFor(p, "electricity") /\ SomeEligible("Electrical")) =>
            Technician(ap[p].technician).specialization = "Electrical"
       /\ (SelectedFor(p, "water") /\ SomeEligible("Plumbing")) =>
            Technician(ap[p].technician).specialization = "Plumbing"
       /\ \A c \in {"garbage", "electrical", "road"} :
            (SelectedFor(p, c) /\ SomeEligible("General")) =>
              Technician(ap[p].technician).specialization = "General"

\* an electricity alert on a directory whose first technician is an eligible
\* General one and whose second is an eligible Electrical one: the second
\* was selected
ElectricityAlertSkipsGeneral ==
  /\ SelectedFor(1, "electricity")
  /\ Technician(1).specialization = "General" /\ Eligible(Technician(1))
  /\ Technician(2).specialization = "Electrical" /\ Eligible(Technician(2))
  /\ ap[1].technician = 2

(***************************************************************************)
(* The general auto-assignment path                                        *)
(***************************************************************************)
\* a store as earlier assignments, completions and the administration of the
\* users collection may have left it: technicians with any flags and any
\* counter up to the cap, each with no schedule or with one schedule, still
\* scheduled or completed, in the slot that starts SCHEDULE_OFFSET_MINUTES
\* from now; the counter counts at least the technician's schedule
InitAssign ==
  /\ now = 0
  /\ ticks = 0
  /\ \E flags \in [Techs -> [active : BOOLEAN, available : BOOLEAN]] :
       \E load \in [Techs -> 0..DEFAULT_MAX_CONCURRENT] :
         \E held \in [Techs -> {"none", "scheduled", "completed"}] :
           LET holders == SelectSeq([id \in Techs |-> id], LAMBDA id : held[id] # "none")
           IN /\ \A id \in Techs : held[id] # "none" => load[id] >= 1
              /\ technicians = [id \in Techs |->
                   [specialization |-> defaultTechnicians[id].specialization,
                    active |-> flags[id].active,
                    available |-> flags[id].available,
                    current_assignments |-> load[id]]]
              /\ incidents = [k \in 1..Len(holders) |->
                   [ NewIncident(incidentUserKind, incidentUserId(holders[k]), "Block B", "water",
                                 detectPriorityOfAlert, TRUE)
                       EXCEPT !.status = IF held[holders[k]] = "completed"
                                         THEN "resolved" ELSE "in-progress",
                              !.assigned_to = holders[k],
                              !.sla_started_at = 0,
                              !.sla_deadline = Minutes(SLA_MINUTES) ]]
              /\ schedules = [k \in 1..Len(holders) |->
                   [ technician_id |-> holders[k],
                     incident_id |-> k,
                     scheduled_time |-> Minutes(SCHEDULE_OFFSET_MINUTES),
                     duration_minutes |-> DEFAULT_DURATION_MINUTES,
                     status |-> held[holders[k]] ]]
  /\ notifications = EmptyBag
  /\ ap = [p \in AllAlertProcs |-> IdleAlert]
  /\ call = [p \in Procs |-> IdleCall]
  /\ sw = [p \in SweepProcs |-> IdleSweep]
  /\ env = [updates |-> 0, reports |-> 0, calls |-> 0, sweeps |-> 0,
            assignment |-> IdleAssignment, aging |-> NoAnalysis]

AssignInputs == { Alert("Block A", "water", 5, 90, Undefined) }

\* one submitAlert request, whose autoAssignTechnician asks for the slot that
\* starts SCHEDULE_OFFSET_MINUTES from now
NextAssign ==
  \/ \E alert \in AssignInputs : SubmitAlert(1, alert)
  \/ AlertStep(1)
  \/ AutoAssignStep(1)

SpecAssign == InitAssign /\ [][NextAssign]_vars

\* the technicians that are active, available, under capacity and free of
\* overlap at the slot
FreeAt(time) ==
  { id \in Techs : /\ Technician(id).active
                   /\ Technician(id).available
                   /\ Technician(id).current_assignments < Technician(id).max_concurrent
                   /\ ~hasOverlappingSchedule(id, time, DEFAULT_DURATION_MINUTES) }

\* of those, the one with the fewest current_assignments, the earliest in
\* directory order among equals; Null when there is none
LeastLoadedFreeAt(time) ==
  IF FreeAt(time) = {} THEN Null
  ELSE CHOOSE id \in FreeAt(time) :
         \A other \in FreeAt(time) :
           \/ Technician(id).current_assignments < Technician(other).current_assignments
           \/ /\ Technician(id).current_assignments = Technician(other).current_assignments
              /\ id <= other

AssignChoice ==
  \A p \in {1} :
    /\ call[p].pc # "threw"
    /\ call[p].pc = "csOverlap" =>
         /\ call[p].best # Null
         /\ call[p].best = LeastLoadedFreeAt(call[p].time)
    /\ (call[p].pc = "returned" /\ call[p].schedule = Null) =>
         LeastLoadedFreeAt(call[p].time) = Null
    /\ call[p].schedule # Null =>
         /\ schedules[call[p].schedule].technician_id = call[p].best
         /\ schedules[call[p].schedule].incident_id = call[p].incident
         /\ schedules[call[p].schedule].scheduled_time = call[p].time

AssignFrame ==
  (call' # call /\ call'[1].schedule = Null) =>
    UNCHANGED <<technicians, schedules, notifications>>

\* C25: autoAssignTechnician creates the schedule for the technician with the
\* fewest current_assignments among the technicians that are active,
\* available, under capacity and free of overlap at the requested slot, the
\* earliest in directory order among equals; when there is no such technician
\* it returns null, and no step of an activation that has not inserted a
\* schedule writes to technicians, schedules or notifications
AssignsLeastLoaded == []AssignChoice /\ [][AssignFrame]_vars

\* the first technician of the directory holds one assignment and the second
\* none, both are free at the slot: the schedule was created for the second
AssignedAgainstDirectoryOrder ==
  /\ call[1].pc = "returned"
  /\ call[1].schedule # Null
  /\ schedules[call[1].schedule].technician_id = 2
  /\ Technician(1).active /\ Technician(1).available
  /\ Technician(1).current_assignments = 1
  /\ Technician(2).current_assignments = 1
  /\ ~hasOverlappingSchedule(1, call[1].time, DEFAULT_DURATION_MINUTES)

(***************************************************************************)
(* Completion of an assignment                                             *)
(***************************************************************************)
\* one caller submits alerts one after the other on the seeded store while
\* the status of an assignment is updated through
\* PATCH /api/technicians/assignments/[id]
NextComplete ==
  \/ \E alert \in SlotInputs : SubmitAlert(1, alert)
  \/ AlertStep(1)
  \/ AutoAssignStep(1)
  \/ AlertRestart(1)
  \/ \E id \in 1..Len(schedules) : \E status \in {"in-progress", "completed", "cancelled"} :
       PatchAssignment(id, status)
  \/ PatchAssignmentComplete
  \/ PatchAssignmentNotify

SpecComplete == Init /\ [][NextComplete]_vars

\* no submitAlert request and no assignment update is in flight
NothingInFlight ==
  /\ \A p \in AllAlertProcs : ap[p].pc \in {"idle", "done"}
  /\ env.assignment.pc = "idle"

\* C26: once the requests have returned, the incident of every completed
\* schedule has status resolved and has resolved_at, completed_by (the
\* schedule's technician) and completed_at set; no schedule is left completed
\* while its incident is new or in-progress.
CompletedMeansResolved ==
  NothingInFlight =>
    \A k \in 1..Len(schedules) :
      schedules[k].status = "completed" =>
        LET incident == incidents[schedules[k].incident_id]
        IN /\ incident.status = "resolved"
           /\ incident.resolved_at # NoTime
           /\ incident.completed_by = schedules[k].technician_id
           /\ incident.completed_at # NoTime

(***************************************************************************)
(* The overlap test                                                        *)
(***************************************************************************)
\* start times a quarter of an hour apart around the slot that a request at
\* minute 60 asks for, [65, 95), and durations shorter than, equal to and
\* longer than the default
OverlapStarts == { Minutes(m) : m \in {5, 20, 35, 50, 65, 80, 95, 110} }
OverlapDurations == {15, DEFAULT_DURATION_MINUTES, 60}

\* the store an hour after an assignment to the first technician: its
\* schedule at any of the start times, of any of the durations, in any status
InitOverlap ==
  /\ now = Minutes(60)
  /\ ticks = 0
  /\ technicians = [id \in Techs |->
       [specialization |-> defaultTechnicians[id].specialization,
        active |-> TRUE, available |-> TRUE,
        current_assignments |-> IF id = 1 THEN 1 ELSE 0]]
  /\ \E start \in OverlapStarts : \E duration \in OverlapDurations :
       \E status \in ScheduleStatus :
         /\ incidents = << [ NewIncident(incidentUserKind, incidentUserId(1), "Block B", "water",
                                        detectPriorityOfAlert, TRUE)
                              EXCEPT !.status = IF status = "completed"
                                                THEN "resolved" ELSE "in-progress",
                                     !.assigned_to = 1,
                                     !.created_at = 0,
                                     !.sla_started_at = 0,
                                     !.sla_deadline = Minutes(SLA_MINUTES) ] >>
         /\ schedules = << [ technician_id |-> 1,
                             incident_id |-> 1,
                             scheduled_time |-> start,
                             duration_minutes |-> duration,
                             status |-> status ] >>
  /\ notifications = EmptyBag
  /\ ap = [p \in AllAlertProcs |-> IdleAlert]
  /\ call = [p \in Procs |-> IdleCall]
  /\ sw = [p \in SweepProcs |-> IdleSweep]
  /\ env = [updates |-> 0, reports |-> 0, calls |-> 0, sweeps |-> 0,
            assignment |-> IdleAssignment, aging |-> NoAnalysis]

\* one submitAlert request
NextOverlap ==
  \/ \E alert \in AssignInputs : SubmitAlert(1, alert)
  \/ AlertStep(1)
  \/ AutoAssignStep(1)

SpecOverlap == InitOverlap /\ [][NextOverlap]_vars

\* newStart < existingEnd AND newEnd > existingStart, for some schedule of
\* the technician with status scheduled or in-progress
IntersectsActive(technicianId, start, duration) ==
  \E k \in 1..Len(schedules) :
    /\ schedules[k].technician_id = technicianId
    /\ schedules[k].status \in {"scheduled", "in-progress"}
    /\ start < schedules[k].scheduled_time + Minutes(schedules[k].duration_minutes)
    /\ start + Minutes(duration) > schedules[k].scheduled_time

\* C27: for every new interval of positive duration hasOverlappingSchedule
\* answers as the symmetric intersection test against the technician's
\* schedules with status scheduled or in-progress does (so an interval that
\* starts when a schedule ends, or ends when it starts, is no overlap, and
\* completed and cancelled schedules are ignored); and the candidates that
\* findAvailableTechnicians keeps are the eligible technicians without such
\* an intersection at the requested slot.
OverlapIsIntersection ==
  /\ \A id \in Techs : \A start \in OverlapStarts : \A duration \in OverlapDurations :
       hasOverlappingSchedule(id, start + Minutes(SCHEDULE_OFFSET_MINUTES), duration)
         <=> IntersectsActive(id, start + Minutes(SCHEDULE_OFFSET_MINUTES), duration)
  /\ \A id \in Techs : \A start \in OverlapStarts : \A duration \in OverlapDurations :
       hasOverlappingSchedule(id, start, duration) <=> IntersectsActive(id, start, duration)
  /\ \A p \in {1} :
       call[p].pc = "csOverlap" =>
         \A id \in Techs :
           (\E n \in 1..Len(call[p].cands) : call[p].cands[n].id = id)
             <=> ( /\ Eligible(Technician(id))
                   /\ ~IntersectsActive(id, call[p].time, DEFAULT_DURATION_MINUTES) )

\* the first technician's schedule ends at the minute the requested slot
\* starts, and the technician was kept as a candidate
AdjacentSlotIsFree ==
  /\ call[1].pc = "csOverlap"
  /\ schedules[1].status = "scheduled"
  /\ schedules[1].technician_id = 1
  /\ schedules[1].scheduled_time + Minutes(schedules[1].duration_minutes) = call[1].time
  /\ \E n \in 1..Len(call[1].cands) : call[1].cands[n].id = 1

(***************************************************************************)
(* Technician documents as stored                                          *)
(***************************************************************************)
\* a users document of a technician: scripts/create-technician.js writes
\* active and available, and skips an account that already exists, which
\* may lack either field
TechnicianDocument(id, hasActive, active, hasAvailable, available, load) ==
  CASE hasActive /\ hasAvailable ->
         [specialization |-> defaultTechnicians[id].specialization,
          active |-> active, available |-> available, current_assignments |-> load]
    [] hasActive /\ ~hasAvailable ->
         [specialization |-> defaultTechnicians[id].specialization,
          active |-> active, current_assignments |-> load]
    [] ~hasActive /\ hasAvailable ->
         [specialization |-> defaultTechnicians[id].specialization,
          available |-> available, current_assignments |-> load]
    [] OTHER ->
         [specialization |-> defaultTechnicians[id].specialization,
          current_assignments |-> load]

\* the first technician holds one future assignment; their document has each
\* flag true, false or missing; the other technicians have complete
\* documents with any flags and no assignment
InitDocuments ==
  /\ now = 0
  /\ ticks = 0
  /\ \E hasActive, active, hasAvailable, available \in BOOLEAN :
       \E flags \in [Techs -> [active : BOOLEAN, available : BOOLEAN]] :
         /\ hasActive \/ active
         /\ hasAvailable \/ available
         /\ technicians = [id \in Techs |->
              IF id = 1
              THEN TechnicianDocument(1, hasActive, active, hasAvailable, available, 1)
              ELSE TechnicianDocument(id, TRUE, flags[id].active, TRUE, flags[id].available, 0)]
  /\ incidents = << [ NewIncident(incidentUserKind, incidentUserId(1), "Block A", "water",
                                 detectPriorityOfAlert, TRUE)
                       EXCEPT !.status = "in-progress",
                              !.assigned_to = 1,
                              !.sla_started_at = 0,
                              !.sla_deadline = Minutes(SLA_MINUTES) ] >>
  /\ schedules = << [ technician_id |-> 1,
                      incident_id |-> 1,
                      scheduled_time |-> Minutes(SCHEDULE_OFFSET_MINUTES),
                      duration_minutes |-> DEFAULT_DURATION_MINUTES,
                      status |-> "scheduled" ] >>
  /\ notifications = EmptyBag
  /\ ap = [p \in AllAlertProcs |-> IdleAlert]
  /\ call = [p \in Procs |-> IdleCall]
  /\ sw = [p \in SweepProcs |-> IdleSweep]
  /\ env = [updates |-> 0, reports |-> 0, calls |-> 0, sweeps |-> 0,
            assignment |-> IdleAssignment, aging |-> NoAnalysis]

\* POST /api/escalation/check on such a store
SpecDocuments == InitDocuments /\ [][NextReschedule]_vars

\* C28: the reschedule sweep goes on to replace a schedule exactly when the
\* Technician Directory reports the schedule's technician as not available or
\* not active, and no step cancels a schedule of a technician that the
\* directory reports as active and available.
SweepFollowsDirectory ==
  [][ /\ \A p \in SweepProcs :
           (sw[p].pc = "findTechnician" /\ sw'[p] # sw[p]) =>
             LET id == schedules[sw[p].scheduledAssignments[sw[p].aidx]].technician_id
             IN (sw'[p].pc = "getIncident")
                  <=> (~Technician(id).available \/ ~Technician(id).active)
      /\ \A k \in 1..Len(schedules) :
           (schedules[k].status = "scheduled" /\ schedules'[k].status = "cancelled") =>
             ~( /\ Technician(schedules[k].technician_id).active
                /\ Technician(schedules[k].technician_id).available )
    ]_vars

(***************************************************************************)
(* The assignment counter                                                  *)
(***************************************************************************)
\* the store after earlier work of the first technician: any counter up to
\* the cap, no schedule or one schedule in the coming slot, still scheduled
\* or completed, and either value of available; the others are idle
InitCounter ==
  /\ now = 0
  /\ ticks = 0
  /\ \E available \in BOOLEAN : \E load \in 0..DEFAULT_MAX_CONCURRENT :
       \E held \in {"none", "scheduled", "completed"} :
         /\ held # "none" => load >= 1
         /\ technicians = [id \in Techs |->
              [specialization |-> defaultTechnicians[id].specialization,
               active |-> TRUE,
               available |-> IF id = 1 THEN available ELSE TRUE,
               current_assignments |-> IF id = 1 THEN load ELSE 0]]
         /\ incidents = IF held = "none" THEN <<>>
              ELSE << [ NewIncident(incidentUserKind, incidentUserId(1), "Block B", "water",
                                    detectPriorityOfAlert, TRUE)
                          EXCEPT !.status = IF held = "completed"
                                            THEN "resolved" ELSE "in-progress",
                                 !.assigned_to = 1,
                                 !.sla_started_at = 0,
                                 !.sla_deadline = Minutes(SLA_MINUTES) ] >>
         /\ schedules = IF held = "none" THEN <<>>
              ELSE << [ technician_id |-> 1,
                        incident_id |-> 1,
                        scheduled_time |-> Minutes(SCHEDULE_OFFSET_MINUTES),
                        duration_minutes |-> DEFAULT_DURATION_MINUTES,
                        status |-> held ] >>
  /\ notifications = EmptyBag
  /\ ap = [p \in AllAlertProcs |-> IdleAlert]
  /\ call = [p \in Procs |-> IdleCall]
  /\ sw = [p \in SweepProcs |-> IdleSweep]
  /\ env = [updates |-> 0, reports |-> 0, calls |-> 0, sweeps |-> 0,
            assignment |-> IdleAssignment, aging |-> NoAnalysis]

\* no request of any kind is in flight
Quiet ==
  /\ NoRequestInFlight
  /\ \A p \in SweepProcs : sw[p].pc \in {"idle", "rescheduled"}
  /\ env.assignment.pc = "idle"

\* the operations of the subsystem, one request at a time and in any order:
\* a submitAlert, a POST /api/escalation/check, and updates through
\* PATCH /api/technicians/assignments/[id] and PATCH /api/incidents/[id]
NextCounter ==
  \/ Quiet /\ \E alert \in RateInputs : SubmitAlert(1, alert)
  \/ AlertStep(1)
  \/ AutoAssignStep(1)
  \/ \E p \in {NumAlertProcs + 2} :
       \/ Quiet /\ SweepReadNew(p)
       \/ SweepReadInProgress(p)
       \/ RescheduleStep(p)
       \/ AutoAssignStep(p)
  \/ Quiet /\ \E id \in 1..Len(schedules) :
                \E status \in {"in-progress", "completed", "cancelled"} :
                  PatchAssignment(id, status)
  \/ PatchAssignmentComplete
  \/ PatchAssignmentNotify
  \/ Quiet /\ \E id \in 1..Len(incidents) : PatchIncident(id, "resolved", Undefined)

SpecCounter == InitCounter /\ [][NextCounter]_vars

\* C29: no step decreases a technician's current_assignments; the counter
\* changes only by the 1 that createSchedule adds for its technician; a step
\* that changes the status of a schedule (completion, cancellation, also by
\* the reschedule sweep) or resolves an incident leaves every counter as it
\* was; and no step of findTechnicianBySpecialization or
\* autoAssignTechnician selects a technician whose counter has reached
\* max_concurrent.
CounterNeverDecreases ==
  [][ /\ \A id \in Techs :
           /\ technicians'[id].current_assignments >= technicians[id].current_assignments
           /\ technicians'[id].current_assignments # technicians[id].current_assignments =>
                /\ technicians'[id].current_assignments
                     = technicians[id].current_assignments + 1
                /\ \E p \in Procs : call[p].pc = "csInc" /\ call[p].best = id
      /\ (\E k \in 1..Len(schedules) : schedules'[k].status # schedules[k].status) =>
           UNCHANGED technicians
      /\ (\E i \in 1..Len(incidents) :
             incidents'[i].status = "resolved" /\ incidents[i].status # "resolved") =>
           UNCHANGED technicians
      /\ \A p \in AllAlertProcs :
           (ap[p].pc = "findTech" /\ ap'[p].technician # Null) =>
             Technician(ap'[p].technician).current_assignments
               < Technician(ap'[p].technician).max_concurrent
      /\ \A p \in Procs :
           (call[p].pc = "overlap" /\ call'[p].best # Null) =>
             Technician(call'[p].best).current_assignments
               < Technician(call'[p].best).max_concurrent
    ]_vars

\* the Electrical technician is active and available, their only schedule is
\* completed and their counter stands at max_concurrent: an electricity alert
\* was given to the second technician
SaturatedTechnicianPassedOver ==
  /\ ap[1].pc = "rateTech"
  /\ ap[1].alert.category = "electricity"
  /\ ap[1].technician = 2
  /\ Technician(1).specialization = "Electrical"
  /\ Technician(1).active /\ Technician(1).available
  /\ Technician(1).current_assignments = Technician(1).max_concurrent
  /\ Len(schedules) >= 1
  /\ \A k \in 1..Len(schedules) :
       schedules[k].technician_id = 1 => schedules[k].status = "completed"

(***************************************************************************)
(* Aging analysis                                                          *)
(***************************************************************************)
\* ages, in minutes, at and beside the limits of the buckets and of the SLA
AgingAges == {0, 4, 5, 11, 12, 15, 16, 30, 59, 120, 239, 240}

\* the store five hours after its first incident: one or two reported
\* incidents of those ages, created on the minute or half a minute earlier
InitAging ==
  /\ now = Hours(5)
  /\ ticks = 0
  /\ technicians = [id \in Techs |->
       [specialization |-> defaultTechnicians[id].specialization,
        active |-> TRUE, available |-> TRUE, current_assignments |-> 0]]
  /\ \E n \in 1..2 : \E age \in [1..n -> AgingAges] : \E late \in [1..n -> {0, UnitsPerMinute \div 2}] :
       incidents = [k \in 1..n |->
         [ NewIncident("user", 1, "Block A", "water", 3, FALSE)
             EXCEPT !.created_at = Hours(5) - Minutes(age[k]) - late[k] ]]
  /\ schedules = <<>>
  /\ notifications = EmptyBag
  /\ ap = [p \in AllAlertProcs |-> IdleAlert]
  /\ call = [p \in Procs |-> IdleCall]
  /\ sw = [p \in SweepProcs |-> IdleSweep]
  /\ env = [updates |-> 0, reports |-> 0, calls |-> 0, sweeps |-> 0,
            assignment |-> IdleAssignment, aging |-> NoAnalysis]

\* the analysis is requested now or a minute later
NextAging ==
  \/ AnalyzeIncidentAging
  \/ ticks < MaxTicks /\ ~env.aging.returned /\ Tick(Minutes(1))

SpecAging == InitAging /\ [][NextAging]_vars

\* the age in whole minutes that the returned analysis saw
AgeSeen(i) == ageMinutes(i, env.aging.now)

AgingCounts ==
  env.aging.returned =>
    LET all == 1..Len(incidents)
        breaches == { i \in all : AgeSeen(i) > SLA_MINUTES }
        risks == { i \in all : /\ 100 * AgeSeen(i) >= 80 * SLA_MINUTES
                               /\ 100 * AgeSeen(i) <= 100 * SLA_MINUTES }
        counted(b) == Cardinality(env.aging.buckets[b])
    IN /\ \A i \in all :
            Cardinality({ b \in 1..Len(agingBuckets) : i \in env.aging.buckets[b] }) = 1
       /\ Len(agingBuckets) = 8
       /\ counted(1) + counted(2) + counted(3) + counted(4)
            + counted(5) + counted(6) + counted(7) + counted(8) = Len(incidents)
       /\ env.aging.sla_breaches = Cardinality(breaches)
       /\ env.aging.at_risk = Cardinality(risks)
       /\ breaches \cap risks = {}
       /\ env.aging.sla_breaches + env.aging.at_risk <= Len(incidents)

AgingFrame ==
  env'.aging # env.aging => UNCHANGED <<technicians, incidents, schedules, notifications>>

====
